---- MODULE Spec2Model ----
(***************************************************************************)
(* The detection -> queue -> remediation pipeline of                       *)
(* realtime_self_healing_mongodb.py: GlobalState (bounded queue, rolling   *)
(* lists, counters, health), the detector's cycle of checks, the fixer's   *)
(* drain loop with its remediation strategies, the orchestrator's stop and *)
(* a dashboard reader taking snapshots.  The MongoDB database is a set of  *)
(* documents per collection; a repository call may raise while the fault   *)
(* budget lasts.  Anomalies are Python dicts shared by reference: they     *)
(* live in the heap `errors` and every list holds heap indices.            *)
(***************************************************************************)
EXTENDS Integers, Sequences, FiniteSets, TLC

VARIABLES
    CONFIG,          \* the flags of CONFIG the fixer reads
    users,           \* db.users: set of documents
    orders,          \* db.orders: set of documents
    orders_orphaned, \* db.orders_orphaned: the archive collection
    profile,         \* db.system.profile: the slow operations of the last hour
    profile_level,   \* the database's profiling level
    backups,         \* the side location _create_backup is to write to
    products,        \* db.products: its number of documents and its indexed fields
    faults,          \* repository calls that may still raise
    cycles_left,     \* detection cycles the detector may still start
    errors,          \* heap of anomaly dicts, an anomaly's reference is its index
    error_queue,     \* GlobalState.error_queue (references, head is next out)
    errors_detected, \* GlobalState.errors_detected (newest first)
    errors_fixed,    \* GlobalState.errors_fixed (newest first)
    current_error,   \* GlobalState.current_error (reference or None)
    statistics,      \* GlobalState.statistics
    system_health,   \* GlobalState.system_health
    d_pc,            \* detector thread: position
    d_client,        \* detector.client is set
    d_result,        \* detector: query results still to be reported
    d_valid,         \* detector: valid_emails of the orphan check
    d_offered,       \* detector: anomalies offered to add_error in this cycle
    d_dropped,       \* history: the offers add_error rejected, with their cycle
    f_pc,            \* fixer thread: position
    f_error,         \* fixer: local `error`
    f_rest,          \* fixer: document ids _fix_duplicates has still to delete
    f_doc,           \* fixer: `doc` of _fix_orphaned
    f_success,       \* fixer: local `success`
    f_raised,        \* fixer: the remediation of f_error raised
    f_before,        \* history: the collections as _fix_error found them
    taken,           \* history: references in the order get_error returned them
    running,         \* RealtimeOrchestrator.running
    f_running,       \* RealtimeErrorFixer.running
    m_pc,            \* main thread: position in stop()
    snapshot,        \* the dict the last get_state returned, or None
    initial          \* history: the database and the budgets of the start

vars == <<CONFIG, users, orders, orders_orphaned, profile, backups, products, profile_level, faults,
          cycles_left, errors, error_queue, errors_detected, errors_fixed,
          current_error, statistics, system_health, d_pc, d_client, d_result,
          d_valid, d_offered, d_dropped, f_pc, f_error, f_rest, f_doc, f_success, f_raised,
          f_before, taken, running, f_running, m_pc, snapshot, initial>>

repo_vars == <<users, orders, orders_orphaned, profile, backups, products, profile_level>>
state_vars == <<errors, error_queue, errors_detected, errors_fixed, current_error,
                statistics, system_health>>
det_vars == <<d_pc, d_client, d_result, d_valid, d_offered, d_dropped, cycles_left>>
fix_vars == <<f_pc, f_error, f_rest, f_doc, f_success, f_raised, f_before, taken>>
orch_vars == <<running, f_running, m_pc, initial>>

----------------------------------------------------------------------------
(* Bounds of the model.  The three capacities are configuration values of  *)
(* the program scaled down so that the full queue, the query limit and the *)
(* eviction from the rolling lists are reached with a handful of documents.*)

\* CONFIG['ERROR_QUEUE_MAX_SIZE'] (100 in the source)
ERROR_QUEUE_MAX_SIZE == 3
\* .limit(10) of the missing-field and consistency queries
FIND_LIMIT == 2
\* the [:50] of errors_detected and errors_fixed
RECENT_MAX == 3
\* the [:20] of get_state
SNAPSHOT_MAX == 2
\* detection cycles per run
MaxCycles == 2
\* repository calls that raise per run
MaxFaults == 1

\* .limit(5) of the slow query scan
SLOW_LIMIT == 5
\* slowms of the profile command
SLOW_MS == 2000

\* Python's None as a string value, as a reference and as a time
None == "None"
NoRef == 0
NoTime == -1
\* a key the document does not have
ABSENT == "<absent>"

----------------------------------------------------------------------------
(* Helpers on sequences and documents                                      *)

Min(a, b) == IF a < b THEN a ELSE b

\* Python's seq[:n]
Take(seq, n) == SubSeq(seq, 1, Min(n, Len(seq)))

\* list.append(x): the new element goes to the end
Insert0_append(seq, x) == Append(seq, x)

\* Python's list.insert(0, x)
Insert0(seq, x) == <<x>> \o seq

Range(seq) == {seq[i] : i \in 1..Len(seq)}

\* the documents of a collection in natural (insertion = _id) order
RECURSIVE Natural(_)
Natural(docs) ==
    IF docs = {} THEN <<>>
    ELSE LET first == CHOOSE d \in docs : \A e \in docs : d._id <= e._id
         IN <<first>> \o Natural(docs \ {first})

RECURSIVE SelectSeq2(_, _)
SelectSeq2(seq, keep) ==
    IF seq = <<>> THEN <<>>
    ELSE (IF Head(seq) \in keep THEN <<Head(seq)>> ELSE <<>>) \o SelectSeq2(Tail(seq), keep)

\* str(ObjectId) and ObjectId(str): the 24 hex digit form and back
str(oid) == [hex |-> oid]
ObjectId(s) == s.hex

\* Python truthiness of a field value: None, '' and an absent key are falsy
Truthy(v) == v \notin {None, ABSENT, ""}

\* a field as an aggregation expression '$field' sees it: absent reads as null
Dollar(v) == IF v = ABSENT THEN None ELSE v

\* a Python bool as the value of a dict key that may also be missing
PyBool(b) == IF b THEN "True" ELSE "False"

\* datetime.now(): the clock read at the grain of the detection interval, that
\* is the number of detection cycles started so far
now == statistics.checks_run

----------------------------------------------------------------------------
(* The database contents the runs start from                               *)

User(id, email, name) == [_id |-> id, email |-> email, name |-> name]
Order(id, user_email, status) == [_id |-> id, user_email |-> user_email, status |-> status]
SlowOp(ns, millis, op) == [ns |-> ns, millis |-> millis, op |-> op]

\* the documents create_data_for_slow_queries inserts
PRODUCT_COUNT == 1000

\* db.products as the generator leaves it: no index but the one on _id
Products == [count |-> PRODUCT_COUNT, indexes |-> {"_id"}]

\* users {a@x.com x3, b@x.com x1}, one order of a@x.com and one of the unknown c@x.com
ScenarioDupOrphan ==
    [users |-> {User(1, "a@x.com", "A"), User(2, "a@x.com", "A"),
                User(3, "a@x.com", "A2"), User(4, "b@x.com", "B")},
     orders |-> {Order(1, "a@x.com", "pending"), Order(2, "c@x.com", "pending")},
     profile |-> {},
     products |-> Products]

\* the incomplete users of create_users_with_missing_fields, one of them missing
\* email and name both, and an order with an invalid status
ScenarioMissing ==
    [users |-> {User(1, ABSENT, ABSENT), User(2, "", "Diana"),
                User(3, None, "Eve"), User(4, "f@x.com", ABSENT)},
     orders |-> {Order(1, "f@x.com", "xyz")},
     profile |-> {},
     products |-> Products]

\* orders with invalid status, one of them orphaned as well, and a slow operation
ScenarioInvalid ==
    [users |-> {User(1, "a@x.com", "A"), User(2, "b@x.com", "B")},
     orders |-> {Order(1, "a@x.com", "xyz"), Order(2, "c@x.com", ABSENT)},
     profile |-> {SlowOp(<<"myapp", "products">>, 2500, "query")},
     products |-> Products]

\* one anomaly of each kind
ScenarioAll ==
    [users |-> {User(1, "a@x.com", "A"), User(2, "a@x.com", "A"), User(3, "", "C")},
     orders |-> {Order(1, "c@x.com", "xyz")},
     profile |-> {SlowOp(<<"myapp", "products">>, 2500, "query")},
     products |-> Products]

\* the data set of generate_all_issues with one record per kind of defect:
\* a duplicated email, a user with an empty email, a user without name, an
\* order of a user that does not exist, an order with an invalid status,
\* and the products without index
ScenarioGenerated ==
    [users |-> {User(1, "john@x.com", "John"), User(2, "john@x.com", "John"),
                User(3, "", "Diana"), User(4, "frank@x.com", ABSENT)},
     orders |-> {Order(1, "ghost@x.com", "pending"), Order(2, "john@x.com", "xyz")},
     profile |-> {},
     products |-> Products]

\* the generator's user without an 'email' key next to its orders: one of an
\* existing user, one of a user that does not exist
ScenarioAbsentParent ==
    [users |-> {User(1, ABSENT, "Charlie"), User(2, "bob@x.com", "Bob")},
     orders |-> {Order(1, "bob@x.com", "pending"), Order(2, "ghost@x.com", "pending")},
     profile |-> {},
     products |-> Products]

Scenarios == {ScenarioDupOrphan, ScenarioMissing, ScenarioInvalid}

Configs == [DRY_RUN : BOOLEAN, AUTO_FIX_ENABLED : BOOLEAN, BACKUP_BEFORE_FIX : BOOLEAN]

\* CONFIG as the source sets it
DefaultConfig == [DRY_RUN |-> FALSE, AUTO_FIX_ENABLED |-> TRUE, BACKUP_BEFORE_FIX |-> TRUE]

RunConfigs == {DefaultConfig,
               [DefaultConfig EXCEPT !.DRY_RUN = TRUE],
               [DefaultConfig EXCEPT !.AUTO_FIX_ENABLED = FALSE]}

----------------------------------------------------------------------------
(* GlobalState                                                             *)

GlobalState_init ==
    /\ errors = <<>>
    /\ error_queue = <<>>
    /\ errors_detected = <<>>
    /\ errors_fixed = <<>>
    /\ current_error = NoRef
    /\ statistics = [total_errors_detected |-> 0, total_errors_fixed |-> 0,
                     total_errors_failed |-> 0, checks_run |-> 0,
                     start_time |-> 0, last_check |-> NoTime, last_fix |-> NoTime]
    /\ system_health = [status |-> "initializing", database_connected |-> FALSE,
                        errors_in_queue |-> 0, fixer_status |-> "idle"]

\* GlobalState after one add_error(error) on the fresh state
GlobalState_added(error) ==
    /\ errors = <<error>>
    /\ error_queue = <<1>>
    /\ errors_detected = <<1>>
    /\ errors_fixed = <<>>
    /\ current_error = NoRef
    /\ statistics = [total_errors_detected |-> 1, total_errors_fixed |-> 0,
                     total_errors_failed |-> 0, checks_run |-> 0,
                     start_time |-> 0, last_check |-> NoTime, last_fix |-> NoTime]
    /\ system_health = [status |-> "initializing", database_connected |-> FALSE,
                        errors_in_queue |-> 1, fixer_status |-> "idle"]

\* queue.Queue(maxsize).put_nowait raises queue.Full at maxsize
QueueFull(q) == Len(q) >= ERROR_QUEUE_MAX_SIZE

\* add_error with a queue that takes everything (maxsize ignored)
add_error_unbounded(error) ==
    LET ref == Len(errors) + 1 IN
    /\ errors' = Append(errors, error)
    /\ error_queue' = Append(error_queue, ref)
    /\ errors_detected' = Take(Insert0(errors_detected, ref), RECENT_MAX)
    /\ statistics' = [statistics EXCEPT !.total_errors_detected = @ + 1]
    /\ system_health' = [system_health EXCEPT !.errors_in_queue = Len(error_queue')]
    /\ UNCHANGED <<errors_fixed, current_error>>

\* add_error counting the detected anomalies by the size of the queue
add_error_qsize(error) ==
    LET ref == Len(errors) + 1 IN
    IF ~QueueFull(error_queue)
    THEN /\ errors' = Append(errors, error)
         /\ error_queue' = Append(error_queue, ref)
         /\ errors_detected' = Take(Insert0(errors_detected, ref), RECENT_MAX)
         /\ statistics' = [statistics EXCEPT !.total_errors_detected = Len(error_queue')]
         /\ system_health' = [system_health EXCEPT !.errors_in_queue = Len(error_queue')]
         /\ UNCHANGED <<errors_fixed, current_error>>
    ELSE UNCHANGED state_vars

\* add_error doing its bookkeeping before put_nowait: a rejected anomaly is
\* still listed and counted
add_error_bookfirst(error) ==
    LET ref == Len(errors) + 1 IN
    /\ errors' = Append(errors, error)
    /\ errors_detected' = Take(Insert0(errors_detected, ref), RECENT_MAX)
    /\ statistics' = [statistics EXCEPT !.total_errors_detected = @ + 1]
    /\ IF ~QueueFull(error_queue)
       THEN /\ error_queue' = Append(error_queue, ref)
            /\ system_health' = [system_health EXCEPT !.errors_in_queue = Len(error_queue')]
       ELSE UNCHANGED <<error_queue, system_health>>
    /\ UNCHANGED <<errors_fixed, current_error>>

\* GlobalState.add_error: under the lock, put_nowait and the bookkeeping, or
\* on queue.Full a logged warning and nothing else
add_error(error) ==
    LET ref == Len(errors) + 1 IN
    IF ~QueueFull(error_queue)
    THEN /\ errors' = Append(errors, error)
         /\ error_queue' = Append(error_queue, ref)
         /\ errors_detected' = Take(Insert0(errors_detected, ref), RECENT_MAX)
         /\ statistics' = [statistics EXCEPT !.total_errors_detected = @ + 1]
         /\ system_health' = [system_health EXCEPT !.errors_in_queue = Len(error_queue')]
         /\ UNCHANGED <<errors_fixed, current_error>>
    ELSE UNCHANGED state_vars

\* mark_fixed whose failure count is not under an else: a success is counted
\* as fixed and as failed
mark_fixed_noelse(error, success) ==
    /\ errors' = [errors EXCEPT ![error].fixed_at = now,
                                ![error].fix_success = PyBool(success)]
    /\ IF success
       THEN /\ errors_fixed' = Take(Insert0(errors_fixed, error), RECENT_MAX)
            /\ statistics' = [statistics EXCEPT !.total_errors_fixed = @ + 1,
                                                !.total_errors_failed = @ + 1,
                                                !.last_fix = now]
       ELSE /\ statistics' = [statistics EXCEPT !.total_errors_failed = @ + 1]
            /\ UNCHANGED errors_fixed
    /\ system_health' = [system_health EXCEPT !.errors_in_queue = Len(error_queue)]
    /\ UNCHANGED <<error_queue, errors_detected, current_error>>

\* mark_fixed without the routing on `success`: every outcome is booked as a
\* fix
mark_fixed_unrouted(error, success) ==
    /\ errors' = [errors EXCEPT ![error].fixed_at = now,
                                ![error].fix_success = PyBool(success)]
    /\ errors_fixed' = Take(Insert0(errors_fixed, error), RECENT_MAX)
    /\ statistics' = [statistics EXCEPT !.total_errors_fixed = @ + 1,
                                        !.last_fix = now]
    /\ system_health' = [system_health EXCEPT !.errors_in_queue = Len(error_queue)]
    /\ UNCHANGED <<error_queue, errors_detected, current_error>>

\* GlobalState.mark_fixed: under the lock, the completion write on the dict
\* and the outcome's bookkeeping
mark_fixed(error, success) ==
    /\ errors' = [errors EXCEPT ![error].fixed_at = now,
                                ![error].fix_success = PyBool(success)]
    /\ IF success
       THEN /\ errors_fixed' = Take(Insert0(errors_fixed, error), RECENT_MAX)
            /\ statistics' = [statistics EXCEPT !.total_errors_fixed = @ + 1,
                                                !.last_fix = now]
       ELSE /\ statistics' = [statistics EXCEPT !.total_errors_failed = @ + 1]
            /\ UNCHANGED errors_fixed
    /\ system_health' = [system_health EXCEPT !.errors_in_queue = Len(error_queue)]
    /\ UNCHANGED <<error_queue, errors_detected, current_error>>

\* GlobalState.get_state: the dict built under the lock
get_state ==
    [statistics |-> statistics,
     system_health |-> system_health,
     errors_detected |-> Take(errors_detected, SNAPSHOT_MAX),
     errors_fixed |-> Take(errors_fixed, SNAPSHOT_MAX),
     current_error |-> current_error,
     errors_in_queue |-> Len(error_queue)]

----------------------------------------------------------------------------
(* The anomaly dicts the detector builds                                   *)

\* the keys of all five kinds, a key a kind does not set being None
Error(type, severity, collection, fix_action) ==
    [type |-> type, severity |-> severity, collection |-> collection,
     field |-> None, value |-> None, count |-> 0, document_ids |-> <<>>,
     document_id |-> str(NoRef), user_email |-> None, missing_field |-> None,
     invalid_value |-> None, duration_ms |-> 0, operation |-> None,
     detected_at |-> now, fix_action |-> fix_action,
     fixed_at |-> NoTime, fix_success |-> None]

\* the fix_action values _fix_error has a strategy for
KnownActions == {"remove_duplicates", "archive_orphaned", "add_default_or_delete",
                 "set_default_value", "create_index"}

\* dicts another caller of add_error may offer: a remediation kind the fixer
\* has no strategy for, a dict without 'fix_action', a dict without 'type'
ForeignAnomaly ==
    [type |-> "disk_full", severity |-> "high", collection |-> "users",
     field |-> None, value |-> None, count |-> 0, document_ids |-> <<>>,
     document_id |-> str(NoRef), user_email |-> None, missing_field |-> None,
     invalid_value |-> None, duration_ms |-> 0, operation |-> None,
     detected_at |-> 0, fix_action |-> "restart_server",
     fixed_at |-> NoTime, fix_success |-> None]

ForeignAnomalies ==
    {ForeignAnomaly,
     [ForeignAnomaly EXCEPT !.fix_action = ABSENT],
     [ForeignAnomaly EXCEPT !.type = ABSENT, !.fix_action = "remove_duplicates"]}

DuplicateError(dup) ==
    [Error("duplicate_record", "medium", "users", "remove_duplicates")
        EXCEPT !.field = "email", !.value = dup._id, !.count = dup.count,
               !.document_ids = [i \in 1..Len(dup.ids) |-> str(dup.ids[i])]]

OrphanError(order) ==
    [Error("orphaned_document", "high", "orders", "archive_orphaned")
        EXCEPT !.document_id = str(order._id), !.user_email = order.user_email]

MissingFieldError(doc) ==
    [Error("missing_field", "high", "users", "add_default_or_delete")
        EXCEPT !.document_id = str(doc._id), !.missing_field = "email"]

InvalidDataError(doc) ==
    [Error("invalid_data", "medium", "orders", "set_default_value")
        EXCEPT !.document_id = str(doc._id), !.field = "status",
               !.invalid_value = Dollar(doc.status)]

SlowQueryError(query) ==
    [Error("slow_query", "low", query.ns[Len(query.ns)], "create_index")
        EXCEPT !.duration_ms = query.millis, !.operation = query.op]

----------------------------------------------------------------------------
(* The repository queries of the checks                                    *)

\* every ordering of a finite set: the order of $group's output is not specified
Orderings(S) ==
    {seq \in [1..Cardinality(S) -> S] :
        \A i, j \in 1..Cardinality(S) : i # j => seq[i] # seq[j]}

\* the _id values of a sequence of documents
Ids(docs) == [i \in 1..Len(docs) |-> docs[i]._id]

\* the aggregation with no stable $push order: a group of odd size lists its
\* ids newest first
DuplicateGroups_unstable ==
    LET keys == {Dollar(u.email) : u \in users}
        group(k) == Natural({u \in users : Dollar(u.email) = k})
        pushed(k) == IF Len(group(k)) % 2 = 1
                     THEN [i \in 1..Len(group(k)) |-> group(k)[Len(group(k)) + 1 - i]]
                     ELSE group(k)
    IN {[_id |-> k, count |-> Len(group(k)), ids |-> Ids(pushed(k))] :
            k \in {k \in keys : Len(group(k)) > 1}}

\* the aggregation with $match count >= 1
DuplicateGroups_gte1 ==
    LET keys == {Dollar(u.email) : u \in users}
        group(k) == Natural({u \in users : Dollar(u.email) = k})
    IN {[_id |-> k, count |-> Len(group(k)), ids |-> Ids(group(k))] : k \in keys}

\* db.users.aggregate([$group by $email with count and ids, $match count > 1])
DuplicateGroups ==
    LET keys == {Dollar(u.email) : u \in users}
        group(k) == Natural({u \in users : Dollar(u.email) = k})
    IN {[_id |-> k, count |-> Len(group(k)), ids |-> Ids(group(k))] :
            k \in {k \in keys : Len(group(k)) > 1}}

\* the orders whose user_email is truthy and not in valid_emails, in scan order
Orphaned(valid_emails) ==
    SelectSeq2(Natural(orders),
               {o \in orders : Truthy(o.user_email) /\ o.user_email \notin valid_emails})

\* a missing-field query with one result per missing field, email and name
MissingEmail_perField ==
    LET RECURSIVE perField(_)
        perField(s) ==
            IF s = <<>> THEN <<>>
            ELSE (IF Truthy(Head(s).email) THEN <<>> ELSE <<Head(s)>>)
                 \o (IF Truthy(Head(s).name) THEN <<>> ELSE <<Head(s)>>)
                 \o perField(Tail(s))
    IN Take(perField(Natural(users)), FIND_LIMIT)

\* db.users.find({$or: [email missing, None, '']}).limit(10)
MissingEmail ==
    Take(SelectSeq2(Natural(users), {u \in users : ~Truthy(u.email)}), FIND_LIMIT)

valid_statuses == {"pending", "processing", "completed", "cancelled"}

\* db.orders.find({status: {$nin: valid_statuses}}).limit(10); $nin matches a
\* document without the field too
InvalidStatus ==
    Take(SelectSeq2(Natural(orders), {o \in orders : o.status \notin valid_statuses}),
         FIND_LIMIT)

\* db.system.profile.find({millis >= 2000, ts within the hour}).limit(5)
SlowQueries ==
    LET slow == {q \in profile : q.millis >= SLOW_MS}
        seq == CHOOSE sq \in Orderings(slow) : TRUE
    IN Take(seq, SLOW_LIMIT)

----------------------------------------------------------------------------
(* RealtimeErrorDetector and RealtimeOrchestrator._run_detector            *)

\* a repository call raises (connection lost, server error)
Raise == faults > 0 /\ faults' = faults - 1

\* what the detector offered to add_error, kept per cycle
Offer(error, accepted) ==
    [type |-> error.type, document_id |-> error.document_id,
     missing_field |-> error.missing_field, count |-> error.count,
     value |-> error.value, accepted |-> accepted]

\* a rejected offer as the history keeps it: what the anomaly was about and
\* the cycle that offered it
Dropped(error) ==
    [type |-> error.type, document_id |-> error.document_id,
     value |-> error.value, cycle |-> statistics.checks_run]

\* a check that remembers what it has reported and was refused, and does not
\* report it a second time
ReportNext_remembered(error, next) ==
    /\ d_result # <<>>
    /\ IF \E d \in d_dropped : /\ d.type = error.type
                               /\ d.document_id = error.document_id
                               /\ d.value = error.value
       THEN UNCHANGED <<state_vars, d_offered, d_dropped>>
       ELSE /\ add_error(error)
            /\ d_offered' = Append(d_offered, Offer(error, ~QueueFull(error_queue)))
            /\ d_dropped' = IF QueueFull(error_queue) THEN d_dropped \cup {Dropped(error)}
                                                      ELSE d_dropped
    /\ d_result' = Tail(d_result)
    /\ d_pc' = IF Tail(d_result) = <<>> THEN next ELSE d_pc
    /\ UNCHANGED <<d_client, d_valid, cycles_left, faults, CONFIG, repo_vars,
                   fix_vars, orch_vars, snapshot>>

\* the loop of a check: build the dict of the next result and add_error it;
\* after the last one the check returns and the cycle goes on at `next`
ReportNext(error, next) ==
    /\ d_result # <<>>
    /\ add_error(error)
    /\ d_offered' = Append(d_offered, Offer(error, ~QueueFull(error_queue)))
    /\ d_dropped' = IF QueueFull(error_queue) THEN d_dropped \cup {Dropped(error)}
                                              ELSE d_dropped
    /\ d_result' = Tail(d_result)
    /\ d_pc' = IF Tail(d_result) = <<>> THEN next ELSE d_pc
    /\ UNCHANGED <<d_client, d_valid, cycles_left, faults, CONFIG, repo_vars,
                   fix_vars, orch_vars, snapshot>>

\* a query returned `result`: report it at `report`, or go on at `next` if empty
Queried(result, report, next) ==
    /\ d_result' = result
    /\ d_pc' = IF result = <<>> THEN next ELSE report

\* _run_detector: while self.running, and on leaving the loop the thread ends
DetectorExit ==
    /\ d_pc = "top"
    /\ ~running
    /\ d_pc' = "exit"
    /\ UNCHANGED <<d_client, d_result, d_valid, d_offered, d_dropped, cycles_left, faults,
                   CONFIG, repo_vars, state_vars, fix_vars, orch_vars, snapshot>>

\* a cycle that stamps last_check and forgets the counter
CycleStart_uncounted ==
    /\ d_pc = "top"
    /\ running
    /\ cycles_left > 0
    /\ statistics' = [statistics EXCEPT !.last_check = now + 1]
    /\ d_offered' = <<>>
    /\ cycles_left' = cycles_left - 1
    /\ UNCHANGED d_dropped
    /\ d_pc' = IF d_client THEN "duplicates" ELSE "connect"
    /\ UNCHANGED <<d_client, d_result, d_valid, faults, CONFIG, repo_vars, errors,
                   error_queue, errors_detected, errors_fixed, current_error,
                   system_health, fix_vars, orch_vars, snapshot>>

\* _run_detector: the loop condition holds; run_detection_cycle: the counter
\* and the timestamp, then connect if there is no client
CycleStart ==
    /\ d_pc = "top"
    /\ running
    /\ cycles_left > 0
    /\ statistics' = [statistics EXCEPT !.checks_run = @ + 1, !.last_check = now + 1]
    /\ d_offered' = <<>>
    /\ cycles_left' = cycles_left - 1
    /\ UNCHANGED d_dropped
    /\ d_pc' = IF d_client THEN "duplicates" ELSE "connect"
    /\ UNCHANGED <<d_client, d_result, d_valid, faults, CONFIG, repo_vars, errors,
                   error_queue, errors_detected, errors_fixed, current_error,
                   system_health, fix_vars, orch_vars, snapshot>>

\* connect: the client is created, then the ping answers or raises
Connect ==
    /\ d_pc = "connect"
    /\ d_client' = TRUE
    /\ \/ /\ system_health' = [system_health EXCEPT !.database_connected = TRUE,
                                                     !.status = "running"]
          /\ d_pc' = "duplicates"
          /\ UNCHANGED faults
       \/ /\ Raise
          /\ system_health' = [system_health EXCEPT !.database_connected = FALSE,
                                                     !.status = "error"]
          /\ d_pc' = "top"
    /\ UNCHANGED <<d_result, d_valid, d_offered, d_dropped, cycles_left, CONFIG, repo_vars,
                   errors, error_queue, errors_detected, errors_fixed, current_error,
                   statistics, fix_vars, orch_vars, snapshot>>

\* _check_duplicates without its try/except: the exception reaches
\* _run_detector and ends the cycle
CheckDuplicates_abort ==
    /\ d_pc = "duplicates"
    /\ \/ /\ \E result \in Orderings(DuplicateGroups) :
                Queried(result, "report_duplicates", "orphaned")
          /\ UNCHANGED faults
       \/ /\ Raise
          /\ d_pc' = "top"
          /\ UNCHANGED d_result
    /\ UNCHANGED <<d_client, d_valid, d_offered, d_dropped, cycles_left, CONFIG, repo_vars,
                   state_vars, fix_vars, orch_vars, snapshot>>

\* _check_duplicates: the aggregation, or its exception swallowed
CheckDuplicates ==
    /\ d_pc = "duplicates"
    /\ \/ /\ \E result \in Orderings(DuplicateGroups) :
                Queried(result, "report_duplicates", "orphaned")
          /\ UNCHANGED faults
       \/ /\ Raise
          /\ d_pc' = "orphaned"
          /\ UNCHANGED d_result
    /\ UNCHANGED <<d_client, d_valid, d_offered, d_dropped, cycles_left, CONFIG, repo_vars,
                   state_vars, fix_vars, orch_vars, snapshot>>

ReportDuplicates ==
    /\ d_pc = "report_duplicates"
    /\ ReportNext(DuplicateError(Head(d_result)), "orphaned")

\* _check_orphaned_documents: valid_emails; doc['email'] raises KeyError for a
\* user without the key, which ends the check like any other exception
CheckOrphanedUsers ==
    /\ d_pc = "orphaned"
    /\ \/ /\ \A u \in users : u.email # ABSENT
          /\ d_valid' = {u.email : u \in users}
          /\ d_pc' = "orphaned_orders"
          /\ UNCHANGED faults
       \/ /\ \E u \in users : u.email = ABSENT
          /\ d_pc' = "missing"
          /\ UNCHANGED <<d_valid, faults>>
       \/ /\ Raise
          /\ d_pc' = "missing"
          /\ UNCHANGED d_valid
    /\ UNCHANGED <<d_client, d_result, d_offered, d_dropped, cycles_left, CONFIG, repo_vars,
                   state_vars, fix_vars, orch_vars, snapshot>>

\* _check_orphaned_documents: the scan of the orders
CheckOrphanedOrders ==
    /\ d_pc = "orphaned_orders"
    /\ \/ /\ Queried(Orphaned(d_valid), "report_orphaned", "missing")
          /\ UNCHANGED faults
       \/ /\ Raise
          /\ d_pc' = "missing"
          /\ UNCHANGED d_result
    /\ d_valid' = {}
    /\ UNCHANGED <<d_client, d_offered, d_dropped, cycles_left, CONFIG, repo_vars,
                   state_vars, fix_vars, orch_vars, snapshot>>

ReportOrphaned ==
    /\ d_pc = "report_orphaned"
    /\ ReportNext(OrphanError(Head(d_result)), "missing")

\* _check_missing_fields: the users without email
CheckMissingFields ==
    /\ d_pc = "missing"
    /\ \/ /\ Queried(MissingEmail, "report_missing", "consistency")
          /\ UNCHANGED faults
       \/ /\ Raise
          /\ d_pc' = "consistency"
          /\ UNCHANGED d_result
    /\ UNCHANGED <<d_client, d_valid, d_offered, d_dropped, cycles_left, CONFIG, repo_vars,
                   state_vars, fix_vars, orch_vars, snapshot>>

ReportMissing ==
    /\ d_pc = "report_missing"
    /\ ReportNext(MissingFieldError(Head(d_result)), "consistency")

\* _check_data_consistency: the orders with a status outside valid_statuses
CheckDataConsistency ==
    /\ d_pc = "consistency"
    /\ \/ /\ Queried(InvalidStatus, "report_invalid", "slow")
          /\ UNCHANGED faults
       \/ /\ Raise
          /\ d_pc' = "slow"
          /\ UNCHANGED d_result
    /\ UNCHANGED <<d_client, d_valid, d_offered, d_dropped, cycles_left, CONFIG, repo_vars,
                   state_vars, fix_vars, orch_vars, snapshot>>

ReportInvalid ==
    /\ d_pc = "report_invalid"
    /\ ReportNext(InvalidDataError(Head(d_result)), "slow")

\* _check_slow_queries: profiling switched on if it is not, then the scan of
\* system.profile; an exception of either call ends the check
CheckSlowQueries ==
    /\ d_pc = "slow"
    /\ \/ /\ profile_level' = 1
          /\ Queried(SlowQueries, "report_slow", "top")
          /\ UNCHANGED faults
       \/ /\ Raise
          /\ profile_level' \in {profile_level, 1}
          /\ d_pc' = "top"
          /\ UNCHANGED d_result
    /\ UNCHANGED <<d_client, d_valid, d_offered, d_dropped, cycles_left, CONFIG, users, orders,
                   orders_orphaned, profile, backups, products, state_vars, fix_vars, orch_vars, snapshot>>

ReportSlow ==
    /\ d_pc = "report_slow"
    /\ ReportNext(SlowQueryError(Head(d_result)), "top")

Detector ==
    \/ CycleStart \/ Connect
    \/ CheckDuplicates \/ ReportDuplicates
    \/ CheckOrphanedUsers \/ CheckOrphanedOrders \/ ReportOrphaned
    \/ CheckMissingFields \/ ReportMissing
    \/ CheckDataConsistency \/ ReportInvalid
    \/ CheckSlowQueries \/ ReportSlow

----------------------------------------------------------------------------
(* Repository writes of the fixer; error['collection'] names the collection*)

\* a delete_one whose filter matches nothing
DeleteOne_nomatch(collection, oid) == UNCHANGED <<users, orders>>

\* collection.delete_one({'_id': oid})
DeleteOne(collection, oid) ==
    /\ users' = IF collection = "users" THEN {d \in users : d._id # oid} ELSE users
    /\ orders' = IF collection = "orders" THEN {d \in orders : d._id # oid} ELSE orders

\* an update_one whose filter matches nothing (the _id given as a string)
UpdateStatus_nomatch(collection, oid, value) == UNCHANGED <<users, orders>>

\* collection.update_one({'_id': oid}, {'$set': {'status': value}})
UpdateStatus(collection, oid, value) ==
    /\ orders' = IF collection = "orders"
                 THEN {IF d._id = oid THEN [d EXCEPT !.status = value] ELSE d : d \in orders}
                 ELSE orders
    /\ UNCHANGED users

\* collection.find_one({'_id': oid}): the document in a one element sequence, or None
FindOne(collection, oid) ==
    LET docs == IF collection = "orders" THEN {d \in orders : d._id = oid} ELSE {}
    IN IF docs = {} THEN <<>> ELSE <<CHOOSE d \in docs : TRUE>>

\* the document with the two archive keys _fix_orphaned adds
Archived(doc) ==
    [_id |-> doc._id, user_email |-> doc.user_email, status |-> doc.status,
     _archived_at |-> now, _archive_reason |-> "orphaned_document"]

----------------------------------------------------------------------------
(* RealtimeErrorFixer                                                      *)

\* f_before while no remediation is under way
NoBefore == [users |-> {}, orders |-> {}]

\* _fix_duplicates deleting every document of the group
DuplicatesToDelete_all(doc_ids) == doc_ids

\* _fix_duplicates: doc_ids[1:], the first document is kept
DuplicatesToDelete(doc_ids) == Tail(doc_ids)

\* the strategy returned `success`
Return(success) ==
    /\ f_success' = success
    /\ f_pc' = "mark"

\* _fix_error without its try/except: the exception of the strategy reaches
\* the except branch of run, past mark_fixed and the clearing of current_error
Except_propagates ==
    /\ Raise
    /\ f_raised' = TRUE
    /\ f_pc' = "top"
    /\ UNCHANGED f_success

\* an except branch that reports the fix as done
Except_success ==
    /\ Raise
    /\ f_raised' = TRUE
    /\ Return(TRUE)

\* the except branch of _fix_error: the exception is logged, False returned
Except ==
    /\ Raise
    /\ f_raised' = TRUE
    /\ Return(FALSE)

\* get_error taking the newest anomaly of the queue instead of the oldest
get_error_newest ==
    IF error_queue # <<>>
    THEN /\ f_error' = error_queue[Len(error_queue)]
         /\ error_queue' = SubSeq(error_queue, 1, Len(error_queue) - 1)
    ELSE /\ f_error' = NoRef
         /\ UNCHANGED error_queue

\* get_error reading the head of the queue without removing it
get_error_peek ==
    IF error_queue # <<>>
    THEN /\ f_error' = Head(error_queue)
         /\ UNCHANGED error_queue
    ELSE /\ f_error' = NoRef
         /\ UNCHANGED error_queue

\* GlobalState.get_error: get_nowait, or None on queue.Empty
get_error ==
    IF error_queue # <<>>
    THEN /\ f_error' = Head(error_queue)
         /\ error_queue' = Tail(error_queue)
    ELSE /\ f_error' = NoRef
         /\ UNCHANGED error_queue

\* run: while self.running, and on leaving the loop the thread ends
FixerExit ==
    /\ f_pc = "top"
    /\ ~f_running
    /\ f_pc' = "exit"
    /\ UNCHANGED <<f_error, f_rest, f_doc, f_success, f_raised, f_before, taken, faults,
                   CONFIG, repo_vars, state_vars, det_vars, orch_vars, snapshot>>

\* run: the loop condition holds and get_error returns an anomaly
GetError ==
    /\ f_pc = "top"
    /\ f_running
    /\ error_queue # <<>>
    /\ get_error
    /\ f_pc' = "set_current"
    /\ taken' = Append(taken, f_error')
    /\ f_raised' = FALSE
    /\ UNCHANGED <<f_rest, f_doc, f_success, f_before, faults, CONFIG, repo_vars, errors,
                   errors_detected, errors_fixed, current_error, statistics,
                   system_health, det_vars, orch_vars, snapshot>>

\* run: the loop condition holds, get_error returns None, fixer_status is set
\* to 'idle' and the fixer sleeps
Idle ==
    /\ f_pc = "top"
    /\ f_running
    /\ error_queue = <<>>
    /\ get_error
    /\ system_health' = [system_health EXCEPT !.fixer_status = "idle"]
    /\ f_raised' = FALSE
    /\ UNCHANGED <<f_pc, f_rest, f_doc, f_success, f_before, taken, faults, CONFIG,
                   repo_vars, errors, errors_detected, errors_fixed, current_error,
                   statistics, det_vars, orch_vars, snapshot>>

\* run: GLOBAL_STATE.current_error = error
SetCurrent ==
    /\ f_pc = "set_current"
    /\ current_error' = f_error
    /\ f_pc' = "set_fixing"
    /\ UNCHANGED <<f_error, f_rest, f_doc, f_success, f_raised, f_before, taken, faults, CONFIG,
                   repo_vars, errors, error_queue, errors_detected, errors_fixed,
                   statistics, system_health, det_vars, orch_vars, snapshot>>

\* a strategy table whose create_index strategy reports that nothing was
\* done
Dispatch_indexFalse(fix_action) ==
    CASE fix_action = "remove_duplicates" ->
            LET doc_ids == errors[f_error].document_ids IN
            IF DuplicatesToDelete(doc_ids) # <<>>
            THEN /\ f_rest' = DuplicatesToDelete(doc_ids)
                 /\ f_pc' = "fix_duplicates"
                 /\ UNCHANGED f_success
            ELSE f_rest' = <<>> /\ Return(TRUE)
      [] fix_action = "archive_orphaned" ->
            f_pc' = "fix_orphaned" /\ UNCHANGED <<f_rest, f_success>>
      [] fix_action = "add_default_or_delete" ->
            f_pc' = "fix_missing_field" /\ UNCHANGED <<f_rest, f_success>>
      [] fix_action = "set_default_value" ->
            f_pc' = "fix_invalid_data" /\ UNCHANGED <<f_rest, f_success>>
      [] fix_action = "create_index" ->
            Return(FALSE) /\ UNCHANGED f_rest
      [] OTHER ->
            Return(FALSE) /\ UNCHANGED f_rest

\* a strategy table whose fallback branch reports success
Dispatch_fallbackTrue(fix_action) ==
    CASE fix_action = "remove_duplicates" ->
            LET doc_ids == errors[f_error].document_ids IN
            IF DuplicatesToDelete(doc_ids) # <<>>
            THEN /\ f_rest' = DuplicatesToDelete(doc_ids)
                 /\ f_pc' = "fix_duplicates"
                 /\ UNCHANGED f_success
            ELSE f_rest' = <<>> /\ Return(TRUE)
      [] fix_action = "archive_orphaned" ->
            f_pc' = "fix_orphaned" /\ UNCHANGED <<f_rest, f_success>>
      [] fix_action = "add_default_or_delete" ->
            f_pc' = "fix_missing_field" /\ UNCHANGED <<f_rest, f_success>>
      [] fix_action = "set_default_value" ->
            f_pc' = "fix_invalid_data" /\ UNCHANGED <<f_rest, f_success>>
      [] fix_action = "create_index" ->
            Return(TRUE) /\ UNCHANGED f_rest
      [] OTHER ->
            Return(TRUE) /\ UNCHANGED f_rest

\* the strategy table of _fix_error
Dispatch(fix_action) ==
    CASE fix_action = "remove_duplicates" ->
            \* _fix_duplicates: the loop over doc_ids[1:]
            LET doc_ids == errors[f_error].document_ids IN
            IF DuplicatesToDelete(doc_ids) # <<>>
            THEN /\ f_rest' = DuplicatesToDelete(doc_ids)
                 /\ f_pc' = "fix_duplicates"
                 /\ UNCHANGED f_success
            ELSE f_rest' = <<>> /\ Return(TRUE)
      [] fix_action = "archive_orphaned" ->
            f_pc' = "fix_orphaned" /\ UNCHANGED <<f_rest, f_success>>
      [] fix_action = "add_default_or_delete" ->
            f_pc' = "fix_missing_field" /\ UNCHANGED <<f_rest, f_success>>
      [] fix_action = "set_default_value" ->
            f_pc' = "fix_invalid_data" /\ UNCHANGED <<f_rest, f_success>>
      [] fix_action = "create_index" ->
            \* _fix_slow_query: the recommendation is logged
            Return(TRUE) /\ UNCHANGED f_rest
      [] OTHER ->
            Return(FALSE) /\ UNCHANGED f_rest

\* _fix_error with DRY_RUN ignored
FixErrorEntry_nodry ==
    IF ~CONFIG.AUTO_FIX_ENABLED
    THEN Return(FALSE) /\ UNCHANGED f_rest
    ELSE Dispatch(errors[f_error].fix_action)

\* a loop without the except branch: the exception ends the fixer thread
LoopExcept_exit ==
    /\ f_pc' = "exit"
    /\ UNCHANGED <<f_rest, f_success>>

\* run's except branch: an exception that leaves the loop body (a KeyError on
\* a key the anomaly does not have) is logged, the fixer sleeps and loops on;
\* mark_fixed is not called and current_error is not cleared
LoopExcept ==
    /\ f_pc' = "top"
    /\ UNCHANGED <<f_rest, f_success>>

\* _create_backup: a log line and a sleep of half a second; no document is
\* read and nothing is written to any location
create_backup(error) == UNCHANGED backups

\* _fix_error testing AUTO_FIX_ENABLED before DRY_RUN
FixErrorEntry_autofixFirst ==
    IF ~CONFIG.AUTO_FIX_ENABLED
    THEN Return(FALSE) /\ UNCHANGED f_rest
    ELSE IF CONFIG.DRY_RUN
         THEN IF errors[f_error].fix_action = ABSENT
              THEN LoopExcept
              ELSE Return(TRUE) /\ UNCHANGED f_rest
         ELSE /\ CONFIG.BACKUP_BEFORE_FIX => create_backup(f_error)
              /\ Dispatch(errors[f_error].fix_action)

\* _fix_error up to the call of the strategy: dry run (its log line reads
\* error['fix_action']), auto-fix off, the backup if BACKUP_BEFORE_FIX is set
\* and the dispatch
FixErrorEntry ==
    IF CONFIG.DRY_RUN
    THEN IF errors[f_error].fix_action = ABSENT
         THEN LoopExcept
         ELSE Return(TRUE) /\ UNCHANGED f_rest
    ELSE IF ~CONFIG.AUTO_FIX_ENABLED
         THEN Return(FALSE) /\ UNCHANGED f_rest
         ELSE /\ CONFIG.BACKUP_BEFORE_FIX => create_backup(f_error)
              /\ Dispatch(errors[f_error].fix_action)

\* run: fixer_status = 'fixing', the log lines (they read error['type']), then
\* _fix_error up to its first repository call
FixError ==
    /\ f_pc = "set_fixing"
    /\ system_health' = [system_health EXCEPT !.fixer_status = "fixing"]
    /\ IF errors[f_error].type = ABSENT THEN LoopExcept ELSE FixErrorEntry
    /\ f_before' = IF f_pc' = "top" THEN NoBefore ELSE [users |-> users, orders |-> orders]
    /\ UNCHANGED <<f_error, f_doc, f_raised, taken, faults, CONFIG, repo_vars, errors,
                   error_queue, errors_detected, errors_fixed, current_error,
                   statistics, det_vars, orch_vars, snapshot>>

\* _fix_duplicates: one delete_one of the loop
FixDuplicates ==
    /\ f_pc = "fix_duplicates"
    /\ \/ /\ DeleteOne(errors[f_error].collection, ObjectId(Head(f_rest)))
          /\ f_rest' = Tail(f_rest)
          /\ IF Tail(f_rest) = <<>> THEN Return(TRUE) ELSE UNCHANGED <<f_pc, f_success>>
          /\ UNCHANGED <<f_raised, faults>>
       \/ /\ Except
          /\ UNCHANGED <<f_rest, users, orders>>
    /\ UNCHANGED <<f_error, f_doc, f_before, taken, CONFIG, orders_orphaned, profile, backups, products,
                   profile_level, state_vars, det_vars, orch_vars, snapshot>>

\* _fix_orphaned taking the document out with find_one_and_delete before it
\* is archived
FixOrphanedFind_andDelete ==
    /\ f_pc = "fix_orphaned"
    /\ \/ /\ f_doc' = FindOne(errors[f_error].collection, ObjectId(errors[f_error].document_id))
          /\ DeleteOne(errors[f_error].collection, ObjectId(errors[f_error].document_id))
          /\ IF f_doc' = <<>> THEN Return(FALSE)
             ELSE f_pc' = "fix_orphaned_insert" /\ UNCHANGED f_success
          /\ UNCHANGED <<f_raised, faults>>
       \/ /\ Except
          /\ UNCHANGED <<f_doc, users, orders>>
    /\ UNCHANGED <<f_error, f_rest, f_before, taken, CONFIG, orders_orphaned, profile, backups,
                   products, profile_level, state_vars, det_vars, orch_vars, snapshot>>

\* _fix_orphaned: find_one, and False if the document is gone
FixOrphanedFind ==
    /\ f_pc = "fix_orphaned"
    /\ \/ /\ f_doc' = FindOne(errors[f_error].collection, ObjectId(errors[f_error].document_id))
          /\ IF f_doc' = <<>> THEN Return(FALSE)
             ELSE f_pc' = "fix_orphaned_insert" /\ UNCHANGED f_success
          /\ UNCHANGED <<f_raised, faults>>
       \/ /\ Except
          /\ UNCHANGED f_doc
    /\ UNCHANGED <<f_error, f_rest, f_before, taken, CONFIG, repo_vars, state_vars, det_vars,
                   orch_vars, snapshot>>

\* _fix_orphaned: insert_one into the archive; an _id the archive holds
\* already raises DuplicateKeyError
FixOrphanedInsert ==
    /\ f_pc = "fix_orphaned_insert"
    /\ \/ /\ \A a \in orders_orphaned : a._id # f_doc[1]._id
          /\ orders_orphaned' = orders_orphaned \cup {Archived(f_doc[1])}
          /\ f_pc' = "fix_orphaned_delete"
          /\ UNCHANGED <<f_success, f_raised, faults>>
       \/ /\ \E a \in orders_orphaned : a._id = f_doc[1]._id
          /\ f_raised' = TRUE
          /\ Return(FALSE)
          /\ UNCHANGED <<orders_orphaned, faults>>
       \/ /\ Except
          /\ UNCHANGED orders_orphaned
    /\ UNCHANGED <<f_error, f_rest, f_doc, f_before, taken, CONFIG, users, orders, profile, backups, products,
                   profile_level, state_vars, det_vars, orch_vars, snapshot>>

\* _fix_orphaned: delete_one of the original
FixOrphanedDelete ==
    /\ f_pc = "fix_orphaned_delete"
    /\ \/ /\ DeleteOne(errors[f_error].collection, f_doc[1]._id)
          /\ Return(TRUE)
          /\ UNCHANGED <<f_raised, faults>>
       \/ /\ Except
          /\ UNCHANGED <<users, orders>>
    /\ UNCHANGED <<f_error, f_rest, f_doc, f_before, taken, CONFIG, orders_orphaned, profile, backups, products,
                   profile_level, state_vars, det_vars, orch_vars, snapshot>>

\* _fix_missing_field run inside the lock, together with mark_fixed
FixMissingField_underLock ==
    /\ f_pc = "fix_missing_field"
    /\ DeleteOne(errors[f_error].collection, ObjectId(errors[f_error].document_id))
    /\ mark_fixed(f_error, TRUE)
    /\ f_success' = TRUE
    /\ f_pc' = "clear"
    /\ f_before' = NoBefore
    /\ UNCHANGED <<f_error, f_rest, f_doc, f_raised, taken, faults, CONFIG, orders_orphaned,
                   profile, backups, products, profile_level, det_vars, orch_vars, snapshot>>

\* _fix_missing_field: the document is deleted
FixMissingField ==
    /\ f_pc = "fix_missing_field"
    /\ \/ /\ DeleteOne(errors[f_error].collection, ObjectId(errors[f_error].document_id))
          /\ Return(TRUE)
          /\ UNCHANGED <<f_raised, faults>>
       \/ /\ Except
          /\ UNCHANGED <<users, orders>>
    /\ UNCHANGED <<f_error, f_rest, f_doc, f_before, taken, CONFIG, orders_orphaned, profile, backups, products,
                   profile_level, state_vars, det_vars, orch_vars, snapshot>>

\* _fix_invalid_data: the field is set to 'pending'
FixInvalidData ==
    /\ f_pc = "fix_invalid_data"
    /\ \/ /\ UpdateStatus(errors[f_error].collection,
                          ObjectId(errors[f_error].document_id), "pending")
          /\ Return(TRUE)
          /\ UNCHANGED <<f_raised, faults>>
       \/ /\ Except
          /\ UNCHANGED <<users, orders>>
    /\ UNCHANGED <<f_error, f_rest, f_doc, f_before, taken, CONFIG, orders_orphaned, profile, backups, products,
                   profile_level, state_vars, det_vars, orch_vars, snapshot>>

\* run: GLOBAL_STATE.mark_fixed(error, success)
MarkFixed ==
    /\ f_pc = "mark"
    /\ mark_fixed(f_error, f_success)
    /\ f_pc' = "clear"
    /\ f_before' = NoBefore
    /\ UNCHANGED <<f_error, f_rest, f_doc, f_success, f_raised, taken, faults, CONFIG,
                   repo_vars, det_vars, orch_vars, snapshot>>

\* a loop body that returns after its first anomaly instead of looping
ClearCurrent_return ==
    /\ f_pc = "clear"
    /\ current_error' = NoRef
    /\ f_pc' = "exit"
    /\ UNCHANGED <<f_error, f_rest, f_doc, f_success, f_raised, f_before, taken, faults, CONFIG,
                   repo_vars, errors, error_queue, errors_detected, errors_fixed,
                   statistics, system_health, det_vars, orch_vars, snapshot>>

\* run: GLOBAL_STATE.current_error = None and the pacing sleep
ClearCurrent ==
    /\ f_pc = "clear"
    /\ current_error' = NoRef
    /\ f_pc' = "top"
    /\ UNCHANGED <<f_error, f_rest, f_doc, f_success, f_raised, f_before, taken, faults, CONFIG,
                   repo_vars, errors, error_queue, errors_detected, errors_fixed,
                   statistics, system_health, det_vars, orch_vars, snapshot>>

Fixer ==
    \/ GetError \/ Idle \/ SetCurrent
    \/ FixError \/ FixDuplicates
    \/ FixOrphanedFind \/ FixOrphanedInsert \/ FixOrphanedDelete
    \/ FixMissingField \/ FixInvalidData
    \/ MarkFixed \/ ClearCurrent

----------------------------------------------------------------------------
(* RealtimeOrchestrator.stop and the dashboard's reader                    *)

\* stop: self.running = False
StopDetector ==
    /\ m_pc = "started"
    /\ running' = FALSE
    /\ m_pc' = "stopping"
    /\ UNCHANGED <<f_running, initial, faults, CONFIG, repo_vars, state_vars,
                   det_vars, fix_vars, snapshot>>

\* stop: self.fixer.stop()
StopFixer ==
    /\ m_pc = "stopping"
    /\ f_running' = FALSE
    /\ m_pc' = "stopped"
    /\ UNCHANGED <<running, initial, faults, CONFIG, repo_vars, state_vars,
                   det_vars, fix_vars, snapshot>>

Stop == StopDetector \/ StopFixer

\* main: the process lives until main returns; detector and fixer are daemon
\* threads, which the interpreter does not wait for
ProcessAlive == m_pc # "exited"

\* main: after stop() has returned the final statistics are logged and main
\* returns; stop() joins no thread
MainExit ==
    /\ m_pc = "stopped"
    /\ m_pc' = "exited"
    /\ UNCHANGED <<running, f_running, initial, faults, CONFIG, repo_vars, state_vars,
                   det_vars, fix_vars, snapshot>>

\* api_status: jsonify(GLOBAL_STATE.get_state())
ApiStatus ==
    /\ snapshot' = <<get_state>>
    /\ snapshot' # snapshot
    /\ UNCHANGED <<faults, CONFIG, repo_vars, state_vars, det_vars, fix_vars, orch_vars>>

----------------------------------------------------------------------------
(* IssueVerifier of verify_issues.py: the counts verify_all adds up         *)

RECURSIVE SumOver(_, _)
SumOver(S, n) ==
    IF S = {} THEN n
    ELSE LET x == CHOOSE y \in S : TRUE IN SumOver(S \ {x}, n + x.count - 1)

\* check_duplicates: per group of users sharing an email, the extra documents
check_duplicates == SumOver(DuplicateGroups, 0)

\* check_orphaned: valid_emails are the truthy emails (read with .get); the
\* orders whose truthy user_email is not among them
check_orphaned ==
    LET valid_emails == {u.email : u \in {v \in users : Truthy(v.email)}}
    IN Cardinality({o \in orders : Truthy(o.user_email) /\ o.user_email \notin valid_emails})

\* check_missing_fields: the users without email, and the users without name
\* not counted already
check_missing_fields ==
    Cardinality({u \in users : ~Truthy(u.email)})
        + Cardinality({u \in users : ~Truthy(u.name) /\ Truthy(u.email)})

\* check_invalid_data: the orders with a status outside valid_statuses
check_invalid_data == Cardinality({o \in orders : o.status \notin valid_statuses})

\* check_indexes: with more than 100 products, the recommended fields that
\* have no index
check_indexes ==
    IF products.count > 100
    THEN Cardinality({"category", "price", "name"} \ products.indexes)
    ELSE 0

\* verify_all: total_issues
verify_all ==
    check_duplicates + check_orphaned + check_missing_fields
        + check_invalid_data + check_indexes

----------------------------------------------------------------------------
(* Specifications                                                          *)

\* the threads as start leaves them, on the database of `scenario`
Threads(scenario, config, nfaults, ncycles) ==
    /\ CONFIG = config
    /\ users = scenario.users
    /\ orders = scenario.orders
    /\ orders_orphaned = {}
    /\ profile = scenario.profile
    /\ profile_level = 0
    /\ backups = {}
    /\ products = scenario.products
    /\ faults = nfaults
    /\ cycles_left = ncycles
    /\ d_pc = "top" /\ d_client = FALSE /\ d_result = <<>> /\ d_valid = {}
    /\ d_offered = <<>> /\ d_dropped = {}
    /\ f_pc = "top" /\ f_error = NoRef /\ f_rest = <<>> /\ f_doc = <<>>
    /\ f_success = FALSE /\ f_raised = FALSE /\ f_before = NoBefore /\ taken = <<>>
    /\ running = TRUE /\ f_running = TRUE /\ m_pc = "started"
    /\ snapshot = <<>>
    /\ initial = [users |-> scenario.users, orders |-> scenario.orders,
                  faults |-> nfaults, cycles |-> ncycles]

\* a run on a fresh GlobalState
Start(scenario, config, nfaults, ncycles) ==
    /\ Threads(scenario, config, nfaults, ncycles)
    /\ GlobalState_init

\* what a run may spend: every detection cycle and every raising repository
\* call counts against MaxCycles; the runs with other flags than the source's
\* meet no raising call and stop one cycle earlier
Budgets(config) ==
    {b \in [cycles : 1..MaxCycles, faults : 0..MaxFaults] :
        IF config = DefaultConfig
        THEN b.cycles + b.faults <= MaxCycles
        ELSE b.faults = 0 /\ b.cycles < MaxCycles}

\* detector and fixer on every scenario, with the flags as the source sets them,
\* with the dry run and with auto-fix off
Init ==
    \E scenario \in Scenarios, config \in RunConfigs :
        \E b \in Budgets(config) : Start(scenario, config, b.faults, b.cycles)

Next == Detector \/ Fixer

Spec == Init /\ [][Next]_vars

\* the same with a dashboard polling /api/status, one cycle on ScenarioAll
InitReader == Start(ScenarioAll, DefaultConfig, 0, 1)

NextReader == Detector \/ Fixer \/ ApiStatus

SpecReader == InitReader /\ [][NextReader]_vars

\* the same with the main thread calling stop() at any moment and returning
\* from main after it; the threads run as long as the process lives
InitStop == \E nfaults \in 0..MaxFaults : Start(ScenarioAll, DefaultConfig, nfaults, 1)

NextStop ==
    \/ ProcessAlive /\ (Detector \/ DetectorExit \/ Fixer \/ FixerExit)
    \/ Stop
    \/ MainExit

SpecStop == InitStop /\ [][NextStop]_vars

\* add_error is open to any caller and takes any dict: the runs that start
\* with one anomaly in the queue that the detector would not build, and the
\* main thread calling stop() at any moment
InitOpen ==
    \E config \in RunConfigs, foreign \in ForeignAnomalies :
        \E nfaults \in IF config = DefaultConfig THEN 0..MaxFaults ELSE {0} :
            /\ Threads(ScenarioAll, config, nfaults, 1)
            /\ GlobalState_added(foreign)

NextOpen == Detector \/ DetectorExit \/ Fixer \/ FixerExit \/ Stop

SpecOpen == InitOpen /\ [][NextOpen]_vars

\* the repository goes away and comes back: the run on ScenarioAll in which
\* MaxFaults repository calls raise, the ping of connect among them, and
\* the detector starts MaxCycles cycles
InitOutage == Start(ScenarioAll, DefaultConfig, MaxFaults, MaxCycles)

NextOutage == Detector \/ Fixer

SpecOutage == InitOutage /\ [][NextOutage]_vars

\* the self-healing run on the generator's data set, and on ScenarioAll with
\* its slow operation in the profile; no repository call raises
InitHeal ==
    \E scenario \in {ScenarioGenerated, ScenarioAll} :
        Start(scenario, DefaultConfig, 0, MaxCycles)

NextHeal == Detector \/ Fixer

SpecHeal == InitHeal /\ [][NextHeal]_vars

\* one cycle on the users with a parent that has no 'email' key, and on
\* ScenarioAll; no repository call raises
InitOrphan ==
    \E scenario \in {ScenarioAbsentParent, ScenarioAll} :
        Start(scenario, DefaultConfig, 0, 1)

NextOrphan == Detector \/ Fixer

SpecOrphan == InitOrphan /\ [][NextOrphan]_vars

\* one cycle on ScenarioAll under each run configuration, with repository
\* calls that raise, stop() never
\* called, and the fixer thread scheduled fairly: as long as its loop has a
\* step to take it takes one (its sleeps are finite)
InitFair ==
    \E config \in RunConfigs, nfaults \in 0..MaxFaults : Start(ScenarioAll, config, nfaults, 1)

NextFair == Detector \/ Fixer

SpecFair == InitFair /\ [][NextFair]_vars /\ WF_vars(Fixer)

\* detector and fixer on every scenario under every setting of the three
\* flags of CONFIG
InitFlags ==
    \E scenario \in Scenarios, config \in Configs :
        \E b \in Budgets(config) : Start(scenario, config, b.faults, b.cycles)

NextFlags == Detector \/ Fixer

SpecFlags == InitFlags /\ [][NextFlags]_vars

----------------------------------------------------------------------------
(* Properties                                                              *)

\* the fixer really remediates: no dry run, auto-fix on
Remediating == ~CONFIG.DRY_RUN /\ CONFIG.AUTO_FIX_ENABLED

\* the fixer is at the return of _fix_error for an anomaly with `fix_action`,
\* the strategy having run without an exception
Returned(fix_action) ==
    /\ f_pc = "mark"
    /\ Remediating
    /\ ~f_raised
    /\ errors[f_error].fix_action = fix_action

\* this step is a call of add_error by the detector
AddErrorCalled == Len(d_offered') = Len(d_offered) + 1

\* the offers of the running cycle for document `oid` with `type`
Offers(type, oid) ==
    {i \in 1..Len(d_offered) :
        d_offered[i].type = type /\ d_offered[i].document_id = str(oid)}

OffersOfType(type) == {i \in 1..Len(d_offered) : d_offered[i].type = type}

\* C1: the queue never holds more than ERROR_QUEUE_MAX_SIZE anomalies, and an
\* add_error called on a full queue returns (the detector goes on to its next
\* result) leaving the queue as it was; add_error is never blocked.
C1_QueueBounded ==
    /\ [](Len(error_queue) <= ERROR_QUEUE_MAX_SIZE)
    /\ [](d_result # <<>> => ENABLED Detector)
    /\ [][AddErrorCalled /\ QueueFull(error_queue)
            => /\ error_queue' = error_queue
               /\ d_result' = Tail(d_result)
               /\ ~d_offered'[Len(d_offered')].accepted]_vars

\* C1 witness: an add_error was rejected on a queue at capacity
C1_Witness ==
    /\ Len(error_queue) = ERROR_QUEUE_MAX_SIZE
    /\ \E i \in 1..Len(d_offered) : ~d_offered[i].accepted

\* C2: every snapshot get_state returned shows current_error set if and only
\* if fixer_status is 'fixing'.
C2_SnapshotConsistent ==
    \A i \in 1..Len(snapshot) :
        snapshot[i].current_error # NoRef
            <=> snapshot[i].system_health.fixer_status = "fixing"

\* C3: the fixer takes the anomalies in the order add_error accepted them
\* (references are handed out in acceptance order): no anomaly is taken before
\* one accepted earlier, and none waits in the queue behind a later one.
C3_Fifo ==
    /\ \A i, j \in 1..Len(taken) : i < j => taken[i] < taken[j]
    /\ \A i \in 1..Len(taken), j \in 1..Len(error_queue) : taken[i] < error_queue[j]
    /\ \A i, j \in 1..Len(error_queue) : i < j => error_queue[i] < error_queue[j]

\* C3 witness: two anomalies were taken while pushes went on behind them
C3_Witness ==
    /\ Len(taken) >= 2
    /\ error_queue # <<>>
    /\ Len(errors) > ERROR_QUEUE_MAX_SIZE

\* the users that share the key of duplicate anomaly `e`, in `coll`
Group(coll, e) == {u \in coll : Dollar(u.email) = e.value}

\* the anomaly lists exactly the group as the fix found it, N >= 2 documents
ListsGroup(e) ==
    /\ Len(e.document_ids) >= 2
    /\ {u._id : u \in Group(f_before.users, e)}
          = {ObjectId(e.document_ids[i]) : i \in 1..Len(e.document_ids)}
    /\ Cardinality(Group(f_before.users, e)) = Len(e.document_ids)

\* C4: when _fix_duplicates has run on an anomaly that lists the N >= 2 users
\* sharing a key, exactly one user with that key is left, it is the first of
\* document_ids, exactly N-1 users were deleted and the fix reports success.
C4_KeepFirst ==
    Returned("remove_duplicates") /\ ListsGroup(errors[f_error]) =>
        LET e == errors[f_error] IN
        /\ {u._id : u \in Group(users, e)} = {ObjectId(e.document_ids[1])}
        /\ Cardinality(Group(users, e)) = 1
        /\ Cardinality(f_before.users \ users) = Len(e.document_ids) - 1
        /\ users \subseteq f_before.users
        /\ f_success

\* C4 witness: the fix has run on a group of three
C4_Witness ==
    /\ Returned("remove_duplicates")
    /\ ListsGroup(errors[f_error])
    /\ Len(errors[f_error].document_ids) = 3

\* C5: when _fix_orphaned has run for an orphaned order, no order with that
\* _id is left in orders and exactly one document with that _id is in
\* orders_orphaned, carrying an archive reason and an archive time.
C5_ArchiveMoves ==
    Returned("archive_orphaned") =>
        LET oid == ObjectId(errors[f_error].document_id)
            kept == {a \in orders_orphaned : a._id = oid}
        IN /\ \A o \in orders : o._id # oid
           /\ Cardinality(kept) = 1
           /\ \A a \in kept : /\ a._archive_reason = "orphaned_document"
                              /\ a._archived_at # NoTime
                              /\ a.user_email = errors[f_error].user_email

\* C5 witness: the fix found the order and moved it
C5_Witness ==
    /\ Returned("archive_orphaned")
    /\ f_success
    /\ \E o \in f_before.orders : o._id = ObjectId(errors[f_error].document_id)

\* a user missing (absent, null or empty) on email and on name
MissingBoth(u) == ~Truthy(u.email) /\ ~Truthy(u.name)

Target(coll, e) == {o \in coll : o._id = ObjectId(e.document_id)}

\* C7: _fix_invalid_data leaves the status of its order at 'pending' and
\* reports success every time it runs, also on an order it or an earlier
\* anomaly set to 'pending' already, and then it changes nothing at all.
C7_CoerceIdempotent ==
    Returned("set_default_value") =>
        LET e == errors[f_error] IN
        /\ f_success
        /\ \A o \in Target(orders, e) : o.status = "pending"
        /\ Target(f_before.orders, e) # {} => Target(orders, e) # {}
        /\ (\A o \in Target(f_before.orders, e) : o.status = "pending")
              => orders = f_before.orders
        /\ users = f_before.users

\* C7 witness: the second application, on an order that held 'pending'
C7_Witness ==
    /\ Returned("set_default_value")
    /\ \E o \in Target(f_before.orders, errors[f_error]) : o.status = "pending"
    /\ errors[f_error].invalid_value # "pending"
    /\ \E r \in Range(errors_fixed) :
          /\ errors[r].fix_action = "set_default_value"
          /\ errors[r].document_id = errors[f_error].document_id

ScenarioRun ==
    /\ initial.users = ScenarioDupOrphan.users
    /\ initial.orders = ScenarioDupOrphan.orders
    /\ initial.faults = 0
    /\ Remediating

\* the first detection cycle has offered all it found
FirstCycleOver == statistics.checks_run = 1 /\ d_pc = "top"

\* every accepted anomaly has been taken and its outcome recorded
Drained ==
    /\ error_queue = <<>>
    /\ Len(taken) = Len(errors)
    /\ f_pc \in {"clear", "top"}

\* C9: on that scenario the first cycle enqueues exactly one duplicate anomaly
\* (a@x.com, count 3) and exactly one orphan anomaly (the order of c@x.com);
\* once the fixer has drained what a completed cycle enqueued, users holds one
\* a@x.com and one b@x.com, orders one document and the archive one.
C9_Scenario ==
    ScenarioRun =>
        /\ FirstCycleOver =>
              /\ Cardinality(OffersOfType("duplicate_record")) = 1
              /\ Cardinality(OffersOfType("orphaned_document")) = 1
              /\ Cardinality(Offers("orphaned_document", 2)) = 1
              /\ \A i \in 1..Len(d_offered) :
                    /\ d_offered[i].accepted
                    /\ d_offered[i].type = "duplicate_record" => d_offered[i].count = 3
              /\ Len(d_offered) = 2
              /\ \E r \in 1..Len(errors) :
                    /\ errors[r].type = "duplicate_record"
                    /\ errors[r].value = "a@x.com"
                    /\ errors[r].count = 3
        /\ statistics.checks_run >= 1 /\ d_pc = "top" /\ Drained =>
              /\ Cardinality(users) = 2
              /\ Cardinality({u \in users : u.email = "a@x.com"}) = 1
              /\ Cardinality({u \in users : u.email = "b@x.com"}) = 1
              /\ Cardinality(orders) = 1
              /\ \A o \in orders : o.user_email = "a@x.com"
              /\ Cardinality(orders_orphaned) = 1
              /\ \A a \in orders_orphaned : a.user_email = "c@x.com"

\* C9 witness: the first cycle's two anomalies are drained
C9_Witness ==
    /\ ScenarioRun
    /\ FirstCycleOver
    /\ Drained
    /\ Len(errors) = 2

\* C10: an exception inside the remediation makes _fix_error return False;
\* mark_fixed then counts the anomaly as failed, once, and as nothing else;
\* the anomaly is neither put back into the queue nor taken again, and the
\* fixer goes on to its loop top.
C10_ExceptionFails ==
    /\ [](f_pc = "mark" /\ f_raised => ~f_success)
    /\ [][f_raised /\ f_pc = "mark" /\ f_pc' # "mark"
            => /\ statistics'.total_errors_failed = statistics.total_errors_failed + 1
               /\ statistics'.total_errors_fixed = statistics.total_errors_fixed
               /\ errors'[f_error].fix_success = "False"
               /\ errors_fixed' = errors_fixed
               /\ error_queue' = error_queue
               /\ f_pc' = "clear"]_vars
    /\ [][f_raised /\ f_pc = "clear" /\ f_pc' # "clear" => f_pc' = "top"]_vars
    /\ [](f_raised => f_pc \in {"mark", "clear", "top"})
    /\ [](\A i \in 1..Len(taken) : taken[i] \notin Range(error_queue))
    /\ [](\A i, j \in 1..Len(taken) : i # j => taken[i] # taken[j])
    /\ [](f_raised /\ f_pc \in {"mark", "clear", "top"} => ENABLED Fixer)

\* C10 witness: a remediation raised and its anomaly is recorded as failed
C10_Witness ==
    /\ f_raised
    /\ f_pc = "clear"
    /\ errors[f_error].fix_success = "False"
    /\ statistics.total_errors_failed >= 1

\* the anomaly has a 'type' and its fix_action is none the fixer has a
\* strategy for (an unknown kind, or no 'fix_action' key at all)
UnknownKind(e) == e.type # ABSENT /\ e.fix_action \notin KnownActions

C12_LoopsExitOnlyOnStop ==
    /\ [](m_pc = "started" => d_pc # "exit" /\ f_pc # "exit")
    /\ [](d_pc = "exit" => ~running)
    /\ [](f_pc = "exit" => ~f_running)
    /\ [][d_pc' = "exit" /\ d_pc # "exit" => d_pc = "top" /\ ~running]_vars
    /\ [][f_pc' = "exit" /\ f_pc # "exit" => f_pc = "top" /\ ~f_running]_vars
    /\ [](d_pc \notin {"top", "exit"} => ENABLED Detector)
    /\ [](d_pc = "top" /\ running /\ cycles_left > 0 => ENABLED CycleStart)
    /\ [](f_pc # "exit" /\ (f_pc = "top" => f_running) => ENABLED Fixer)

\* C12 witness: stop() has not been called, a repository call has raised, a
\* push was rejected, the dict without 'type' has thrown the fixer into its
\* except branch, and both loops are at their loop top
C12_Witness ==
    /\ m_pc = "started"
    /\ d_pc = "top" /\ f_pc = "top"
    /\ faults < initial.faults
    /\ \E i \in 1..Len(d_offered) : ~d_offered[i].accepted
    /\ \E r \in Range(taken) : errors[r].type = ABSENT /\ errors[r].fix_success = None
    /\ Len(taken) >= 2

\* C13: when the process ends after stop(), both loops have observed the flag
\* at their loop top and exited, so no detection cycle and no remediation was
\* abandoned half way.
C13_StopCompletes ==
    m_pc = "exited" => d_pc = "exit" /\ f_pc = "exit"

\* the positions at which a thread issues a repository call
DetectorRepositoryPcs ==
    {"connect", "duplicates", "orphaned", "orphaned_orders", "missing", "consistency", "slow"}

FixerRepositoryPcs ==
    {"fix_duplicates", "fix_orphaned", "fix_orphaned_insert", "fix_orphaned_delete",
     "fix_missing_field", "fix_invalid_data"}

\* the positions at which the detector's next step is add_error
DetectorReportPcs ==
    {"report_duplicates", "report_orphaned", "report_missing", "report_invalid", "report_slow"}

\* this step runs a `with self.lock` block: add_error (an offer is made),
\* mark_fixed (an anomaly dict is written) or get_state (a snapshot is built)
LockedStep ==
    \/ AddErrorCalled
    \/ Len(errors') = Len(errors) /\ errors' # errors
    \/ snapshot' # snapshot

\* this step issues a repository call: it is taken from a repository
\* position, or it changes the database, or a call raises
RepositoryStep ==
    \/ d_pc \in DetectorRepositoryPcs /\ <<d_pc, d_result, d_valid>>' # <<d_pc, d_result, d_valid>>
    \/ f_pc \in FixerRepositoryPcs /\ <<f_pc, f_rest, f_doc>>' # <<f_pc, f_rest, f_doc>>
    \/ repo_vars' # repo_vars
    \/ faults' # faults

\* C14: no step both runs a locked block and issues a repository call, and
\* the lock is free between steps: while one thread is inside a repository
\* operation the other thread's add_error or mark_fixed and the reader's
\* get_state can be taken.
C14_NoLockAcrossRepository ==
    /\ [][~(LockedStep /\ RepositoryStep)]_vars
    /\ [](f_pc \in FixerRepositoryPcs /\ d_pc \in DetectorReportPcs => ENABLED Detector)
    /\ [](d_pc \in DetectorRepositoryPcs /\ f_pc = "mark" => ENABLED MarkFixed)
    /\ [](f_pc \in FixerRepositoryPcs \/ d_pc \in DetectorRepositoryPcs
            => (snapshot # <<get_state>> => ENABLED ApiStatus))

\* C14 witness: a snapshot was built while the fixer is inside a repository
\* operation and the detector is about to call add_error
C14_Witness ==
    /\ f_pc \in FixerRepositoryPcs
    /\ d_pc \in DetectorReportPcs
    /\ snapshot = <<get_state>>
    /\ current_error # NoRef

\* this step changes the shared operational state: a counter or timestamp, a
\* health field, current_error, a rolling list, or it pops the queue
SharedStateMutated ==
    \/ statistics' # statistics
    \/ system_health' # system_health
    \/ current_error' # current_error
    \/ errors_detected' # errors_detected
    \/ errors_fixed' # errors_fixed
    \/ Len(error_queue') < Len(error_queue)

\* C15: every step that changes the shared operational state runs a locked
\* block.
C15_MutationsLocked == [][SharedStateMutated => LockedStep]_vars

\* C16: no step of detector or fixer decreases one of the four
\* counters of statistics.
C16_CountersMonotonic ==
    [][/\ statistics'.total_errors_detected >= statistics.total_errors_detected
       /\ statistics'.total_errors_fixed >= statistics.total_errors_fixed
       /\ statistics'.total_errors_failed >= statistics.total_errors_failed
       /\ statistics'.checks_run >= statistics.checks_run]_vars

\* C16 witness: every counter has been raised, the queue has been drained
\* and filled again
C16_Witness ==
    /\ statistics.total_errors_detected > ERROR_QUEUE_MAX_SIZE
    /\ statistics.total_errors_fixed >= 1
    /\ statistics.total_errors_failed >= 1
    /\ statistics.checks_run >= 1

\* the anomalies fixed with success, in the order the fixer recorded them
FixedInOrder == SelectSeq2(taken, {r \in Range(taken) : errors[r].fix_success = "True"})

\* C17: errors_detected and errors_fixed never hold more than RECENT_MAX
\* anomalies (50 in the source); errors_detected is the latest accepted
\* anomalies and errors_fixed the latest successfully fixed ones, the newest
\* at index 0 and each older one behind it, so that what a full list has
\* dropped is its oldest entries.
C17_RecentLists ==
    /\ Len(errors_detected) = Min(Len(errors), RECENT_MAX)
    /\ \A i \in 1..Len(errors_detected) : errors_detected[i] = Len(errors) - i + 1
    /\ Len(errors_fixed) = Min(Len(FixedInOrder), RECENT_MAX)
    /\ \A i \in 1..Len(errors_fixed) :
          errors_fixed[i] = FixedInOrder[Len(FixedInOrder) - i + 1]

\* C17 witness: both lists are full and have dropped an entry
C17_Witness ==
    /\ Len(errors) > RECENT_MAX
    /\ Len(errors_detected) = RECENT_MAX
    /\ Len(FixedInOrder) > RECENT_MAX
    /\ Len(errors_fixed) = RECENT_MAX

\* C18: an anomaly dict is changed by one kind of step only, the fixer's
\* mark_fixed on the anomaly it has taken; that step finds fixed_at and
\* fix_success unwritten, writes both and leaves every other key as it was; no
\* step of the detector changes a dict that exists, and no dict is dropped.
C18_CompletionWrittenOnce ==
    [][/\ Len(errors') >= Len(errors)
       /\ \A r \in 1..Len(errors) :
             errors'[r] # errors[r] =>
                /\ f_pc = "mark" /\ f_pc' = "clear" /\ r = f_error
                /\ UNCHANGED det_vars
                /\ errors[r].fixed_at = NoTime
                /\ errors[r].fix_success = None
                /\ errors'[r].fixed_at # NoTime
                /\ errors'[r].fix_success \in {"True", "False"}
                /\ errors'[r] = [errors[r] EXCEPT !.fixed_at = errors'[r].fixed_at,
                                                  !.fix_success = errors'[r].fix_success]]_vars

\* C18 witness: one anomaly carries a success, another a failure, and the
\* detector has run a cycle after the first completion write
C18_Witness ==
    /\ \E r \in 1..Len(errors) : errors[r].fix_success = "True"
    /\ \E r \in 1..Len(errors) : errors[r].fix_success = "False"
    /\ \E r, q \in 1..Len(errors) :
          errors[r].fixed_at # NoTime /\ errors[q].detected_at > errors[r].fixed_at

\* C19: current_error is empty or the anomaly taken last, and that anomaly's
\* outcome is not recorded yet; when the fixer has taken an anomaly,
\* current_error is empty and the outcome of every anomaly taken before is
\* recorded.
C19_OneInFlight ==
    /\ current_error # NoRef =>
          /\ taken # <<>>
          /\ current_error = taken[Len(taken)]
          /\ errors[current_error].fix_success = None
    /\ f_pc = "set_current" =>
          /\ current_error = NoRef
          /\ \A i \in 1..(Len(taken) - 1) : errors[taken[i]].fix_success # None

\* the anomaly dicts reachable from a snapshot
Reachable(snap) ==
    Range(snap.errors_detected) \cup Range(snap.errors_fixed)
        \cup ({snap.current_error} \ {NoRef})

\* C20: as long as a snapshot is held, no step changes an anomaly dict that
\* is reachable from it.
C20_SnapshotImmutable ==
    [][snapshot' = snapshot =>
          \A i \in 1..Len(snapshot) : \A r \in Reachable(snapshot[i]) :
              errors'[r] = errors[r]]_vars

\* the positions of a cycle at which a check runs or reports
DetectorCheckPcs == (DetectorRepositoryPcs \ {"connect"}) \cup DetectorReportPcs

\* C21: a cycle whose connect fails sets database_connected false, runs no
\* check and offers nothing, and the loop goes on; a cycle started while the
\* health says disconnected attempts the connection again, so that checks run
\* only with database_connected true.
C21_ConnectRetried ==
    /\ [][d_pc = "connect" /\ faults' < faults
            => /\ ~system_health'.database_connected
               /\ d_pc' = "top"
               /\ d_offered' = <<>>
               /\ error_queue' = error_queue]_vars
    /\ [](d_pc = "top" /\ running /\ cycles_left > 0 => ENABLED CycleStart)
    /\ [][d_pc = "top" /\ d_pc' # "top" /\ ~system_health.database_connected
            => d_pc' = "connect"]_vars
    /\ [](d_pc \in DetectorCheckPcs => system_health.database_connected)
\* where the cycle goes on when the check of position `pc` is over
AfterCheck(pc) ==
    CASE pc \in {"duplicates", "report_duplicates"} -> "orphaned"
      [] pc \in {"orphaned", "orphaned_orders", "report_orphaned"} -> "missing"
      [] pc \in {"missing", "report_missing"} -> "consistency"
      [] pc \in {"consistency", "report_invalid"} -> "slow"
      [] pc \in {"slow", "report_slow"} -> "top"

\* this step is a repository call of a check that raises
CheckRaised == d_pc \in DetectorCheckPcs /\ d_pc' # d_pc /\ faults' < faults

\* C22: a repository call of a check that raises ends that check only: the
\* detector goes on at the next check of the cycle (after the last check, at
\* the loop top) and the failing step enqueues nothing and changes no
\* document; a check is left for the next check only, so the cycle passes
\* every check; and in the first cycle on the users {a x3, b} and orders
\* {a, c} a duplicate check that raised, the only call of the cycle to
\* raise, does not keep the orphan check from offering the order of c@x.com.
C22_ChecksIndependent ==
    /\ [][CheckRaised
            => /\ d_pc' = AfterCheck(d_pc)
               /\ UNCHANGED <<state_vars, users, orders, orders_orphaned, d_offered>>]_vars
    /\ [][d_pc' # d_pc /\ d_pc \in DetectorCheckPcs
            => (d_pc' = AfterCheck(d_pc)
                \/ (d_pc' \in DetectorCheckPcs /\ AfterCheck(d_pc') = AfterCheck(d_pc)))]_vars
    /\ [](d_pc \in DetectorCheckPcs => ENABLED Detector)
    /\ [](/\ initial.users = ScenarioDupOrphan.users
          /\ initial.orders = ScenarioDupOrphan.orders
          /\ statistics.checks_run = 1
          /\ system_health.database_connected
          /\ d_pc \in {"missing", "report_missing", "consistency", "report_invalid",
                        "slow", "report_slow", "top"}
          /\ OffersOfType("duplicate_record") = {}
          /\ faults = initial.faults - 1
          => Cardinality(Offers("orphaned_document", 2)) = 1)

\* C22 witness: the first cycle is over, its duplicate check raised (the
\* duplicates are there and were not offered) and the orphan check after it
\* has enqueued its anomaly
C22_Witness ==
    /\ FirstCycleOver
    /\ system_health.database_connected
    /\ faults < initial.faults
    /\ DuplicateGroups # {}
    /\ OffersOfType("duplicate_record") = {}
    /\ \E i \in Offers("orphaned_document", 2) : d_offered[i].accepted
\* _fix_orphaned has returned for an anomaly whose order was gone from the
\* original collection when the remediation began
OrphanGone ==
    /\ Returned("archive_orphaned")
    /\ Target(f_before.orders, errors[f_error]) = {}

\* C23: when _fix_orphaned runs for an order that is no longer in the
\* original collection, it changes nothing and reports success, and mark_fixed
\* counts the anomaly as fixed and not as failed.
C23_GoneIsSuccess ==
    /\ [](OrphanGone => /\ f_success
                         /\ users = f_before.users
                         /\ orders = f_before.orders)
    /\ [][OrphanGone /\ f_pc' # f_pc
            => /\ statistics'.total_errors_fixed = statistics.total_errors_fixed + 1
               /\ statistics'.total_errors_failed = statistics.total_errors_failed]_vars
\* the documents this step deletes from or rewrites in users and orders
Mutated == (users \ users') \cup (orders \ orders')

\* C25: with BACKUP_BEFORE_FIX set, no dry run and auto-fix on, a step that
\* deletes or rewrites a document finds that document's state in the backup
\* location already.
C25_BackupBeforeMutation ==
    [][Remediating /\ CONFIG.BACKUP_BEFORE_FIX
          => \A doc \in Mutated : \E b \in backups : b.document = doc]_vars
\* C26: in every snapshot get_state returned, system_health.errors_in_queue
\* is the number of anomalies the queue held when the snapshot was built.
C26_HealthQueueDepth ==
    \A i \in 1..Len(snapshot) :
        snapshot[i].system_health.errors_in_queue = snapshot[i].errors_in_queue
\* the pipeline has come to rest: a detection cycle after the first has run
\* all its checks and offered nothing, and every anomaly enqueued before has
\* been taken and its outcome recorded
Settled ==
    /\ d_pc = "top"
    /\ statistics.checks_run >= 2
    /\ system_health.database_connected
    /\ d_offered = <<>>
    /\ Drained

\* C27: when detector and fixer have come to rest on the generator's data
\* set (a complete cycle enqueues nothing more, the queue is drained), the
\* verifier's verify_all counts zero issues.
C27_HealsAll == Settled => verify_all = 0
\* where anomaly `r` of the heap stands
Lifecycle(errs, queue, r) ==
    IF r \in Range(queue) THEN "queued"
    ELSE IF errs[r].fix_success = None THEN "in_flight"
    ELSE IF errs[r].fix_success = "True" THEN "fixed" ELSE "failed"

\* the anomalies taken whose outcome mark_fixed has recorded
Recorded == {r \in Range(taken) : errors[r].fix_success # None}

\* C28: when the fixer is at its loop top or has just taken an anomaly,
\* current_error is cleared and the outcome of every anomaly taken before is
\* recorded, whether its strategy returned or raised; mark_fixed has counted
\* each taken anomaly at most once and only the one in hand is uncounted; an
\* accepted anomaly starts queued and moves only from queued to in_flight
\* and from in_flight to fixed or to failed.
C28_OutcomeExactlyOnce ==
    /\ [](f_pc \in {"top", "set_current"}
            => /\ current_error = NoRef
               /\ \A i \in 1..Len(taken) :
                     (f_pc = "set_current" /\ i = Len(taken))
                        \/ errors[taken[i]].fix_success # None)
    /\ [](statistics.total_errors_fixed + statistics.total_errors_failed
            = Cardinality(Recorded))
    /\ [](\A r \in 1..Len(errors) :
            Lifecycle(errors, error_queue, r) = "in_flight"
                => r = f_error /\ r = taken[Len(taken)] /\ f_pc \notin {"top", "clear"})
    /\ [][\A r \in 1..Len(errors') :
            IF r > Len(errors)
            THEN Lifecycle(errors', error_queue', r) = "queued"
            ELSE \/ Lifecycle(errors', error_queue', r) = Lifecycle(errors, error_queue, r)
                 \/ /\ Lifecycle(errors, error_queue, r) = "queued"
                    /\ Lifecycle(errors', error_queue', r) = "in_flight"
                 \/ /\ Lifecycle(errors, error_queue, r) = "in_flight"
                    /\ Lifecycle(errors', error_queue', r) \in {"fixed", "failed"}]_vars

\* C28 witness: the fixer is back at its loop top after a strategy that
\* raised; that anomaly is recorded as failed, an earlier one as fixed
C28_Witness ==
    /\ f_pc = "top"
    /\ f_raised
    /\ current_error = NoRef
    /\ errors[f_error].fix_success = "False"
    /\ \E r \in Range(taken) : errors[r].fix_success = "True"
\* this step is the fixer's call of mark_fixed
MarkFixedCalled == f_pc = "mark" /\ f_pc' = "clear"

\* C29: mark_fixed with success puts the anomaly at index 0 of errors_fixed,
\* raises total_errors_fixed by one, sets last_fix and leaves
\* total_errors_failed; with failure it raises total_errors_failed by one and
\* leaves errors_fixed, total_errors_fixed and last_fix; in both cases
\* total_errors_detected and errors_detected are left as they were.
C29_OutcomeRouted ==
    [][MarkFixedCalled
        => /\ IF f_success
              THEN /\ errors_fixed' = Take(<<f_error>> \o errors_fixed, RECENT_MAX)
                   /\ statistics'.total_errors_fixed = statistics.total_errors_fixed + 1
                   /\ statistics'.last_fix = now
                   /\ statistics'.last_fix # NoTime
                   /\ statistics'.total_errors_failed = statistics.total_errors_failed
              ELSE /\ statistics'.total_errors_failed = statistics.total_errors_failed + 1
                   /\ errors_fixed' = errors_fixed
                   /\ statistics'.total_errors_fixed = statistics.total_errors_fixed
                   /\ statistics'.last_fix = statistics.last_fix
           /\ statistics'.total_errors_detected = statistics.total_errors_detected
           /\ errors_detected' = errors_detected]_vars

\* C29 witness: a failure has been booked after a success, with anomalies
\* detected meanwhile
C29_Witness ==
    /\ f_pc = "clear"
    /\ ~f_success
    /\ statistics.total_errors_failed = 1
    /\ statistics.total_errors_fixed >= 1
    /\ errors_fixed # <<>>
    /\ f_error \notin Range(errors_fixed)
    /\ statistics.last_fix # NoTime

\* the detection cycles started, in progress, skipped at a failed connect
\* (connect is attempted in the first cycle only) and run to completion
CyclesStarted == initial.cycles - cycles_left
CycleInProgress == IF d_pc \notin {"top", "exit"} THEN 1 ELSE 0
CyclesSkipped ==
    IF d_client /\ d_pc # "connect" /\ ~system_health.database_connected THEN 1 ELSE 0
CyclesCompleted == CyclesStarted - CycleInProgress - CyclesSkipped

\* C30 as claimed: checks_run is the number of detection cycles that have run
\* to completion, not counting a skipped cycle or the cycle in progress.
C30_CountsCompleted == statistics.checks_run = CyclesCompleted

\* C30 amended: checks_run is the number of detection cycles started; it is
\* raised by exactly one, together with last_check, by the step that starts a
\* cycle and by no other, so the cycle in progress and a cycle skipped at a
\* failed connect are counted.
C30_CountsStarted ==
    /\ [](statistics.checks_run = CyclesStarted)
    /\ [][statistics'.checks_run # statistics.checks_run
            \/ statistics'.last_check # statistics.last_check
            \/ cycles_left' # cycles_left
            => /\ statistics'.checks_run = statistics.checks_run + 1
               /\ statistics'.last_check = statistics'.checks_run
               /\ cycles_left' = cycles_left - 1
               /\ d_pc = "top" /\ d_pc' \in {"connect", "duplicates"}]_vars
    /\ [](statistics.checks_run > 0 <=> statistics.last_check # NoTime)

\* C30 witness: the only cycle of the run was skipped at its failed connect
\* and is counted
C30_Witness ==
    /\ d_pc = "top"
    /\ CyclesSkipped = 1
    /\ CyclesCompleted = 0
    /\ statistics.checks_run = 1
    /\ statistics.last_check # NoTime
\* the orders of `coll` whose user_email is non-empty and is the email of
\* no user
OrphansOf(coll) ==
    {o \in coll : Truthy(o.user_email) /\ \A u \in users : u.email # o.user_email}

\* C31: when the orphan check of a cycle is over, each order that was
\* orphaned when the cycle began and still is has been offered as exactly
\* one orphaned_document anomaly, and no other order has been offered;
\* users whose email is absent, null or empty do not change that.
C31_OrphansReported ==
    d_pc \in {"missing", "report_missing"} /\ statistics.checks_run = 1 =>
        /\ \A o \in OrphansOf(orders) : Cardinality(Offers("orphaned_document", o._id)) = 1
        /\ \A o \in initial.orders \ OrphansOf(initial.orders) :
              Offers("orphaned_document", o._id) = {}
\* the fixer really remediates the slow_query anomaly it has in hand
FixingSlowQuery == Remediating /\ errors[f_error].fix_action = "create_index"

CycleOrder ==
    <<"duplicates", "report_duplicates", "orphaned", "orphaned_orders", "report_orphaned",
      "missing", "report_missing", "consistency", "report_invalid", "slow", "report_slow",
      "top">>

Position(pc) == CHOOSE i \in 1..Len(CycleOrder) : CycleOrder[i] = pc

\* the last position of the check that builds anomalies of `type`
LastOf(type) ==
    CASE type = "duplicate_record" -> "report_duplicates"
      [] type = "orphaned_document" -> "report_orphaned"
      [] type = "missing_field" -> "report_missing"
      [] type = "invalid_data" -> "report_invalid"
      [] type = "slow_query" -> "report_slow"

\* the running cycle has finished the check of `type`
CheckOver(type) ==
    /\ d_pc \in Range(CycleOrder)
    /\ Position(d_pc) > Position(LastOf(type))

\* the defect a rejected offer was about is in the repository
DefectPresent(d) ==
    CASE d.type = "duplicate_record" ->
            Cardinality({u \in users : Dollar(u.email) = d.value}) > 1
      [] d.type = "orphaned_document" ->
            \E o \in OrphansOf(orders) : str(o._id) = d.document_id
      [] d.type = "missing_field" ->
            \E u \in users : str(u._id) = d.document_id /\ ~Truthy(u.email)
      [] d.type = "invalid_data" ->
            \E o \in orders : str(o._id) = d.document_id /\ o.status \notin valid_statuses
      [] d.type = "slow_query" -> SlowQueries # <<>>

\* the running cycle has offered an anomaly for what `d` was about
Reoffered(d) ==
    \E i \in 1..Len(d_offered) :
        /\ d_offered[i].type = d.type
        /\ d_offered[i].document_id = d.document_id
        /\ d_offered[i].value = d.value

\* C33: when add_error rejected an anomaly in one cycle and the next cycle
\* has finished the check of its kind, no repository call having raised,
\* then if the defect is still in the repository that cycle has built an
\* anomaly for it again and offered it to add_error.
C33_DroppedRedetected ==
    faults = initial.faults /\ system_health.database_connected =>
        \A d \in d_dropped :
            d.cycle + 1 = statistics.checks_run /\ CheckOver(d.type) /\ DefectPresent(d)
                => Reoffered(d)

\* C33 witness: an anomaly rejected in the first cycle has been offered
\* again in the second and accepted
C33_Witness ==
    /\ statistics.checks_run = 2
    /\ \E d \in d_dropped :
          /\ d.cycle = 1
          /\ DefectPresent(d)
          /\ \E i \in 1..Len(d_offered) :
                /\ d_offered[i].type = d.type
                /\ d_offered[i].document_id = d.document_id
                /\ d_offered[i].value = d.value
                /\ d_offered[i].accepted
\* one if the fixer holds an anomaly it has taken and whose outcome
\* mark_fixed has not recorded, else zero
InFlight ==
    IF taken # <<>> /\ errors[taken[Len(taken)]].fix_success = None THEN 1 ELSE 0

\* C34: total_errors_detected is the number of anomalies in the queue, plus
\* the one the fixer has in hand, plus total_errors_fixed, plus
\* total_errors_failed; so fixed + failed never exceeds detected.
C34_Conservation ==
    /\ statistics.total_errors_detected
          = Len(error_queue) + InFlight
              + statistics.total_errors_fixed + statistics.total_errors_failed
    /\ statistics.total_errors_fixed + statistics.total_errors_failed
          <= statistics.total_errors_detected

\* C34 witness: every term of the sum is positive and an offer was rejected
C34_Witness ==
    /\ error_queue # <<>>
    /\ InFlight = 1
    /\ statistics.total_errors_fixed >= 1
    /\ statistics.total_errors_failed >= 1
    /\ d_dropped # {}
\* ScenarioAll holds one defect of each kind the detector knows, so one
\* cycle has at most that many anomalies accepted
MaxAccepted == Cardinality(KnownActions)

\* anomaly `r` has been accepted into the queue
Accepted(r) == r <= Len(errors)

\* anomaly `r` has been taken by the fixer and booked as fixed or as failed
Booked(r) ==
    /\ r <= Len(errors)
    /\ r \in Range(taken)
    /\ r \notin Range(error_queue)
    /\ errors[r].fix_success \in {"True", "False"}

\* C35: with the fixer scheduled fairly and no stop(), every anomaly
\* accepted into the queue is eventually taken and booked as fixed or as
\* failed, whatever the detector pushes meanwhile; and once booked it stays
\* booked with the same outcome.
C35_EventuallyBooked ==
    /\ [](Len(errors) <= MaxAccepted)
    /\ \A r \in 1..MaxAccepted : Accepted(r) ~> Booked(r)
    /\ [][\A r \in 1..Len(errors) :
            Booked(r) => errors'[r].fix_success = errors[r].fix_success]_vars

\* C35 witness: five anomalies were accepted, the later ones while the
\* fixer was at work, and all are booked, one of them as failed
C35_Witness ==
    /\ Len(errors) = MaxAccepted
    /\ \A r \in 1..Len(errors) : Booked(r)
    /\ \E r \in 1..Len(errors) : errors[r].fix_success = "False"
    /\ \E r \in 1..Len(errors) : errors[r].fixed_at < errors[Len(errors)].detected_at + 1
\* C36: an add_error rejected because the queue is full changes nothing:
\* the queue and the anomalies in it, recent_detected, total_errors_detected
\* and system_health.errors_in_queue are after the call what they were
\* before it.
C36_RejectedAddIsNoOp ==
    [][AddErrorCalled /\ QueueFull(error_queue)
         => /\ error_queue' = error_queue
            /\ errors' = errors
            /\ errors_detected' = errors_detected
            /\ statistics'.total_errors_detected = statistics.total_errors_detected
            /\ system_health'.errors_in_queue = system_health.errors_in_queue]_vars

\* C36 witness: the last add_error was rejected by a full queue, after
\* accepted ones had been listed and counted
C36_Witness ==
    /\ d_offered # <<>>
    /\ ~d_offered[Len(d_offered)].accepted
    /\ QueueFull(error_queue)
    /\ errors_detected # <<>>
    /\ statistics.total_errors_detected >= ERROR_QUEUE_MAX_SIZE
    /\ system_health.errors_in_queue = ERROR_QUEUE_MAX_SIZE
\* the non-empty keys that `docs` holds more than once
DuplicatedKeys(docs) ==
    {u.email : u \in {u \in docs : Truthy(u.email) /\ \E v \in docs : v._id # u._id /\ v.email = u.email}}

\* the duplicate_record anomalies for key `k` whose fix has returned success
FixedFor(k) ==
    {r \in 1..Len(errors) : /\ errors[r].type = "duplicate_record"
                            /\ errors[r].value = k
                            /\ errors[r].fix_success = "True"}

\* C37: duplicate removal never deletes every record of a key: whatever the
\* interleaving of detection cycles (several anomalies for one group, some
\* computed while an earlier fix is half done) and remove_duplicates fixes,
\* a record with each non-empty duplicated key remains.
C37_OneRecordRemains ==
    /\ \A k \in DuplicatedKeys(initial.users) : \E u \in users : u.email = k
    /\ DuplicatedKeys(users) \subseteq DuplicatedKeys(initial.users)

\* C37 witness: two anomalies for one key with different id lists, the second
\* computed while the fix of the first was half done, have both been fixed
C37_Witness ==
    \E k \in DuplicatedKeys(initial.users) :
        /\ Cardinality({u \in users : u.email = k}) = 1
        /\ \E r, q \in FixedFor(k) :
              /\ Len(errors[r].document_ids) = 3
              /\ Len(errors[q].document_ids) = 2
              /\ errors[q].detected_at <= errors[r].fixed_at
\* the order `o` is held by the orders collection or by its archive, with
\* the user_email it had
Held(o) ==
    \/ \E p \in orders : p._id = o._id /\ p.user_email = o.user_email
    \/ \E a \in orders_orphaned : a._id = o._id /\ a.user_email = o.user_email

\* the fixer stands inside _fix_orphaned
Archiving == f_pc \in {"fix_orphaned", "fix_orphaned_insert", "fix_orphaned_delete"}

\* C38: an orphaned order is never lost during archiving: in every state,
\* those between the steps of _fix_orphaned and those after a raising
\* insert_one or delete_one included, the order is in the orders collection
\* or in the archive.
C38_NeverLost ==
    /\ \A o \in initial.orders : Held(o)
    /\ Archiving /\ f_doc # <<>> => Held(f_doc[1])

\* C38 witness: delete_one raised after the insert into the archive, the
\* fix is booked as failed and the order is in both collections
C38_Witness ==
    \E r \in 1..Len(errors) :
        /\ errors[r].type = "orphaned_document"
        /\ errors[r].fix_success = "False"
        /\ \E p \in orders : p._id = ObjectId(errors[r].document_id)
        /\ \E a \in orders_orphaned : a._id = ObjectId(errors[r].document_id)
\* the positions of run outside _fix_error's try block: the strategies and
\* the backup step before them are entered from none of these
OutsideTry == f_pc \in {"top", "set_current", "set_fixing", "mark", "clear", "exit"}

\* the repository is as the run found it and nothing was backed up
Untouched ==
    /\ users = initial.users
    /\ orders = initial.orders
    /\ orders_orphaned = {}
    /\ backups = {}
    /\ products = Products

\* every anomaly the fixer has taken and booked carries `outcome`
AllBooked(outcome) ==
    \A i \in 1..Len(taken) :
        f_pc \in {"clear", "top", "exit"} \/ taken[i] # f_error
            => errors[taken[i]].fix_success = outcome

\* C39: with auto-fix off and dry-run off the fixer never changes the
\* repository and never reaches the backup step, yet goes on taking
\* anomalies from the queue and books every one as failed; with dry-run on,
\* whatever the auto-fix flag, every anomaly is booked as succeeded.
C39_FlagsGateTheFix ==
    /\ ~CONFIG.DRY_RUN /\ ~CONFIG.AUTO_FIX_ENABLED =>
          /\ Untouched
          /\ OutsideTry
          /\ f_pc = "mark" => ~f_success
          /\ AllBooked("False")
          /\ statistics.total_errors_fixed = 0
          /\ statistics.total_errors_failed
                = Cardinality({r \in Range(taken) : errors[r].fix_success = "False"})
          /\ error_queue # <<>> => ENABLED <<Fixer>>_vars
    /\ CONFIG.DRY_RUN =>
          /\ Untouched
          /\ OutsideTry
          /\ f_pc = "mark" => f_success
          /\ AllBooked("True")
          /\ statistics.total_errors_failed = 0

\* C39 witness: with auto-fix off, dry-run off and BACKUP_BEFORE_FIX set, the
\* fixer has drained a queue of at least two anomalies and booked each as
\* failed, the duplicates still in place
C39_Witness ==
    /\ ~CONFIG.AUTO_FIX_ENABLED
    /\ ~CONFIG.DRY_RUN
    /\ CONFIG.BACKUP_BEFORE_FIX
    /\ Len(taken) >= 2
    /\ error_queue = <<>>
    /\ f_pc = "top"
    /\ DuplicateGroups # {}
    /\ statistics.total_errors_failed = Len(taken)
====
